---- MODULE Spec2Model ----
(***************************************************************************)
(* AtlasHub request-execution plane: public CRUD / storage routes, admin   *)
(* SQL executor, tenant pool router, API-key service, project              *)
(* provisioning and the cron scheduler, as state machines.                 *)
(***************************************************************************)
EXTENDS Integers, Sequences, FiniteSets, TLC

VARIABLES
  api_keys,        \* platform table api_keys: sequence of rows (scan order)
  projectPools,    \* gateway db/project.ts: projectId -> {owner, app} pools or NoPools
  tableInfoCache,  \* services/crud.ts: projectId -> cached schema or NoCache
  now,             \* wall clock in ms (Date.now / NOW())
  req,             \* in-flight gateway requests, one record per request slot
  tenantLog,       \* statements dispatched to tenant databases
  storeLog,        \* object-store operations performed
  keyOp,           \* the last completed API-key service call and its pre-state
  prov,            \* the running createProject / deleteProject call
  infra,           \* databases, roles and physical buckets that exist
  platformRows,    \* committed platform rows per project id
  runningJobs,     \* scheduler.ts: let runningJobs
  activeCrons,     \* scheduler.ts: activeCrons map, jobId -> state of its Cron
  dispatches,      \* executeJobWithRetries invocations in progress or finished
  cron_job_runs,   \* platform table cron_job_runs, in creation order
  dbClock,         \* NOW() of the platform database, in ticks
  tenantDdl,       \* tables created in tenant databases by admin statements
  settings,        \* runtime-settings.ts: let settings
  whereCall,       \* the last direct call of buildWhereClause and its result
  backups,         \* platform table backups, in creation order
  backupTasks,     \* createBackup / runBackup / backupProjectDatabase calls
  retention,       \* the last retention run: who applied it, and when
  loadedJobs,      \* scheduler.ts: the CronJob object each registered Cron closes over
  vault,           \* the master-key secret and the credential ciphertexts made under it
  ownerConns,      \* the connections of each project's owner pool
  poolLog,         \* every pg Pool ever opened for a tenant, and whether it was ended
  cleanup          \* the running cleanupExpiredBackups call

apiVars   == <<projectPools, tableInfoCache, now, req, tenantLog, storeLog>>
keyVars   == <<keyOp>>
provVars  == <<prov, infra, platformRows>>
schedVars == <<runningJobs, activeCrons, dispatches, cron_job_runs, dbClock>>
auxVars == <<loadedJobs, vault, ownerConns, poolLog, cleanup>>
adminVars == <<tenantDdl, settings, whereCall, auxVars>>
backupVars == <<backups, backupTasks, retention>>
vars      == <<api_keys, apiVars, keyVars, provVars, schedVars, adminVars, backupVars>>

NULL == 0 - 1

\* null where the other values are tuples
Null == <<>>

\* no CronJob object
NoJob == [httpHeaders |-> Null, httpBody |-> Null]

\* PLATFORM_MASTER_KEY of the deployment: 32 characters
DefaultSecret == "0123456789abcdef0123456789abcdef"

IdleVault == [secret |-> DefaultSecret, stored |-> <<>>, out |-> <<>>]

IdleCleanup == [pc |-> "idle", expired |-> <<>>, attempted |-> {}, deleted |-> {}, count |-> NULL]

IdleRetention ==
  [by |-> "", pc |-> "idle", at |-> NULL, projectId |-> "", before |-> <<>>, toDelete |-> {}]

(***************************************************************************)
(* JavaScript string primitives used by the parsers and validators.        *)
(***************************************************************************)
CharAt(s, i) == SubSeq(s, i, i)

StartsWith(s, p) == Len(s) >= Len(p) /\ SubSeq(s, 1, Len(p)) = p

\* String.prototype.slice(k) with 0 <= k
Slice(s, k) == SubSeq(s, k + 1, Len(s))

Lowers == "abcdefghijklmnopqrstuvwxyz"
Uppers == "ABCDEFGHIJKLMNOPQRSTUVWXYZ"
Digits == "0123456789"

CharsOf(s) == {CharAt(s, i) : i \in 1..Len(s)}

LowerSet == CharsOf(Lowers)
UpperSet == CharsOf(Uppers)
DigitSet == CharsOf(Digits)
WordSet == LowerSet \cup UpperSet \cup DigitSet \cup {"_"}

IsSpace(c) == c \in {" ", "\n", "\t", "\r"}

\* the regex class \w
IsWordChar(c) == c \in WordSet

UpperChar(c) ==
  IF c \in LowerSet
    THEN CharAt(Uppers, CHOOSE i \in 1..Len(Lowers) : CharAt(Lowers, i) = c)
    ELSE c

RECURSIVE ToUpperCase(_)
ToUpperCase(s) ==
  IF Len(s) = 0 THEN "" ELSE UpperChar(CharAt(s, 1)) \o ToUpperCase(Slice(s, 1))

RECURSIVE TrimStart(_)
TrimStart(s) ==
  IF Len(s) > 0 /\ IsSpace(CharAt(s, 1)) THEN TrimStart(Slice(s, 1)) ELSE s

RECURSIVE TrimEnd(_)
TrimEnd(s) ==
  IF Len(s) > 0 /\ IsSpace(CharAt(s, Len(s))) THEN TrimEnd(SubSeq(s, 1, Len(s) - 1)) ELSE s

Trim(s) == TrimEnd(TrimStart(s))

\* String.prototype.split(sep) for a one-character separator
RECURSIVE SplitFrom(_, _, _)
SplitFrom(s, sep, acc) ==
  IF Len(s) = 0 THEN <<acc>>
  ELSE IF CharAt(s, 1) = sep THEN <<acc>> \o SplitFrom(Slice(s, 1), sep, "")
  ELSE SplitFrom(Slice(s, 1), sep, acc \o CharAt(s, 1))

Split(s, sep) == SplitFrom(s, sep, "")

\* Array.prototype.includes
Includes(seq, x) == \E i \in 1..Len(seq) : seq[i] = x

(***************************************************************************)
(* lib/crypto.ts: key hashing.  SHA-256 is modelled as an injective tag.   *)
(***************************************************************************)
Sha256(x) == <<"sha256", x>>

hashApiKey(key) == Sha256(key)

constantTimeCompare(a, b) == Sha256(a) = Sha256(b)

(***************************************************************************)
(* services/api-key.ts: validateKey                                        *)
(***************************************************************************)
Projects == {"p1", "p2"}

KeyTypes == {"publishable", "secret"}

NoContext == [projectId |-> "", keyType |-> "", keyId |-> NULL]

KeyRow(id, p, t, plaintext) ==
  [id |-> id, project_id |-> p, key_type |-> t, key_hash |-> hashApiKey(plaintext),
   expires_at |-> NULL, revoked_at |-> NULL]

\* WHERE revoked_at IS NULL AND (expires_at IS NULL OR expires_at > NOW())
IsActiveKey_dropRevokedTest(row, t) == row.expires_at = NULL \/ row.expires_at > t

IsActiveKey(row, t) ==
  row.revoked_at = NULL /\ (row.expires_at = NULL \/ row.expires_at > t)

validateKey(key, rows, t) ==
  LET keyHash == hashApiKey(key)
      act     == SelectSeq(rows, LAMBDA row : IsActiveKey(row, t))
      hits    == {i \in 1..Len(act) : constantTimeCompare(keyHash, act[i].key_hash)}
  IN  IF hits = {} THEN NoContext
      ELSE LET row == act[CHOOSE i \in hits : \A j \in hits : i <= j]
           IN  [projectId |-> row.project_id, keyType |-> row.key_type, keyId |-> row.id]

\* The key table the gateway specifications start from: both projects
\* provisioned, plus one secret key of p1 that has been revoked.
SeedKeys ==
  << KeyRow(1, "p1", "publishable", "pk_p1"),
     KeyRow(2, "p1", "secret", "sk_p1"),
     KeyRow(3, "p2", "publishable", "pk_p2"),
     KeyRow(4, "p2", "secret", "sk_p2"),
     [KeyRow(5, "p1", "secret", "sk_old") EXCEPT !.revoked_at = 0] >>

\* the project a plaintext key was issued for, whatever its state
KeyOwner(key, rows) ==
  LET hits == {i \in 1..Len(rows) : rows[i].key_hash = hashApiKey(key)}
  IN  IF hits = {} THEN "" ELSE rows[CHOOSE i \in hits : TRUE].project_id

(***************************************************************************)
(* lib/query-parser.ts                                                     *)
(***************************************************************************)
FILTER_OPERATORS == <<"eq", "neq", "lt", "lte", "gt", "gte", "like", "ilike", "in">>

\* the first operator op such that key starts with `${op}.`, or 0
MatchingOperator(key) ==
  LET hits == {i \in 1..Len(FILTER_OPERATORS) : StartsWith(key, FILTER_OPERATORS[i] \o ".")}
  IN  IF hits = {} THEN 0 ELSE CHOOSE i \in hits : \A j \in hits : i <= j

TrimAll(seq) == [i \in 1..Len(seq) |-> Trim(seq[i])]

\* one query-string entry -> zero or one ParsedFilter
ParseEntry(entry) ==
  LET key == entry[1]
      value == entry[2]
      k == MatchingOperator(key)
  IN  IF k = 0 THEN <<>>
      ELSE LET op == FILTER_OPERATORS[k]
               column == Slice(key, Len(op) + 1)
           IN  IF column = "" THEN <<>>
               ELSE IF op = "in"
                 THEN << [column |-> column, operator |-> op, value |-> TrimAll(Split(value, ","))] >>
                 ELSE << [column |-> column, operator |-> op, value |-> <<value>>] >>

RECURSIVE parseFilters(_)
parseFilters(query) ==
  IF Len(query) = 0 THEN <<>> ELSE ParseEntry(Head(query)) \o parseFilters(Tail(query))

\* request.query[name], "" standing for undefined
QueryGet(query, name) ==
  LET hits == {i \in 1..Len(query) : query[i][1] = name}
  IN  IF hits = {} THEN "" ELSE query[CHOOSE i \in hits : TRUE][2]

NoOrder == [column |-> "", direction |-> ""]

parseOrder(orderStr) ==
  IF orderStr = "" THEN NoOrder
  ELSE LET parts == Split(orderStr, ".")
       IN  IF Len(parts) # 2 THEN NoOrder
           ELSE IF parts[2] \notin {"asc", "desc"} THEN NoOrder
           ELSE [column |-> parts[1], direction |-> parts[2]]

\* '*' is the one-element list <<"*">>
parseSelect(selectStr) ==
  IF selectStr = "" \/ selectStr = "*" THEN <<"*">>
  ELSE SelectSeq(TrimAll(Split(selectStr, ",")), LAMBDA c : c # "")

(***************************************************************************)
(* lib/sql-builder.ts.  A statement is kept in structured form: the list   *)
(* of conditions with their quoted column and placeholder numbers.         *)
(***************************************************************************)
Placeholders(first, n) == [i \in 1..n |-> first + i - 1]

RECURSIVE WhereFrom(_, _)
WhereFrom(filters, paramIndex) ==
  IF Len(filters) = 0 THEN [conditions |-> <<>>, values |-> <<>>]
  ELSE LET f == Head(filters)
           n == IF f.operator = "in" THEN Len(f.value) ELSE 1
           rest == WhereFrom(Tail(filters), paramIndex + n)
       IN  IF f.operator = "in" /\ Len(f.value) = 0 THEN rest
           ELSE [conditions |->
                   << [column |-> f.column, operator |-> f.operator,
                       placeholders |-> Placeholders(paramIndex, n)] >> \o rest.conditions,
                 values |-> f.value \o rest.values]

buildWhereClause_ignoreStart(filters, startParamIndex) == WhereFrom(filters, 1)

buildWhereClause(filters, startParamIndex) == WhereFrom(filters, startParamIndex)

IdleWhereCall ==
  [filters |-> <<>>, startParamIndex |-> 0, result |-> [conditions |-> <<>>, values |-> <<>>]]

buildOrderClause(order) ==
  IF order = NoOrder THEN <<>> ELSE << [column |-> order.column, direction |-> ToUpperCase(order.direction)] >>

buildSelectColumns_unfiltered(select, allowedColumns) == select

buildSelectColumns(select, allowedColumns) ==
  IF select = <<"*">> THEN <<"*">>
  ELSE LET validColumns == SelectSeq(select, LAMBDA col : Includes(allowedColumns, col))
       IN  IF Len(validColumns) = 0 THEN <<"*">> ELSE validColumns

(***************************************************************************)
(* packages/shared schemas used by the public routes                       *)
(***************************************************************************)
MaxIdentLen == 63
MaxInsertRows == 1000

IsLetter(c) == c \in LowerSet \cup UpperSet

\* z.string().min(1).max(63).regex(/^[a-z_][a-z0-9_]*$/i)
tableNameSchema(name) ==
  /\ Len(name) >= 1
  /\ Len(name) <= MaxIdentLen
  /\ IsLetter(CharAt(name, 1)) \/ CharAt(name, 1) = "_"
  /\ \A i \in 2..Len(name) : IsWordChar(CharAt(name, i))

\* A JSON body is [wellTyped, rows, values, returning]; wellTyped = FALSE is a
\* body whose fields do not have the types the schema asks for.
insertBodySchema(body) ==
  body.wellTyped /\ Len(body.rows) >= 1 /\ Len(body.rows) <= MaxInsertRows

updateBodySchema(body) == body.wellTyped

(***************************************************************************)
(* services/sql.ts: validateSql, isSelectQuery                             *)
(***************************************************************************)
\* position i of s is a \b word boundary (between s[i-1] and s[i])
IsBoundary(s, i) ==
  LET before == i > 1 /\ i - 1 <= Len(s) /\ IsWordChar(CharAt(s, i - 1))
      after  == i >= 1 /\ i <= Len(s) /\ IsWordChar(CharAt(s, i))
  IN  before # after

\* s has the literal w at position i, ignoring case (the /i flag)
LiteralAt(s, i, w) ==
  /\ i >= 1
  /\ i + Len(w) - 1 <= Len(s)
  /\ ToUpperCase(SubSeq(s, i, i + Len(w) - 1)) = ToUpperCase(w)

\* the characters s[from..to-1] are matched by the gap of the pattern:
\* "any" is .* (no line terminator), "ws0" is \s*, "ws1" is \s+
GapMatches(s, from, to, gap) ==
  /\ to >= from
  /\ gap = "ws1" => to > from
  /\ \A k \in from..(to - 1) :
       IF gap = "any" THEN CharAt(s, k) \notin {"\n", "\r"} ELSE IsSpace(CharAt(s, k))

\* /\b<first>[\b]<gap><second>[\b]/i
DANGEROUS_PATTERNS ==
  << [first |-> "COPY", firstEnds |-> TRUE, gap |-> "any", second |-> "PROGRAM", secondEnds |-> TRUE],
     [first |-> "DO", firstEnds |-> FALSE, gap |-> "ws0", second |-> "$$", secondEnds |-> FALSE],
     [first |-> "pg_sleep", firstEnds |-> FALSE, gap |-> "ws0", second |-> "(", secondEnds |-> FALSE],
     [first |-> "CREATE", firstEnds |-> FALSE, gap |-> "ws1", second |-> "EXTENSION", secondEnds |-> TRUE],
     [first |-> "DROP", firstEnds |-> FALSE, gap |-> "ws1", second |-> "DATABASE", secondEnds |-> TRUE],
     [first |-> "DROP", firstEnds |-> FALSE, gap |-> "ws1", second |-> "ROLE", secondEnds |-> TRUE],
     [first |-> "ALTER", firstEnds |-> FALSE, gap |-> "ws1", second |-> "SYSTEM", secondEnds |-> TRUE] >>

\* RegExp.prototype.test
PatternTest(pattern, s) ==
  \E i \in 1..Len(s) :
    /\ IsBoundary(s, i)
    /\ LiteralAt(s, i, pattern.first)
    /\ pattern.firstEnds => IsBoundary(s, i + Len(pattern.first))
    /\ \E j \in (i + Len(pattern.first))..Len(s) :
         /\ GapMatches(s, i + Len(pattern.first), j, pattern.gap)
         /\ LiteralAt(s, j, pattern.second)
         /\ pattern.secondEnds => IsBoundary(s, j + Len(pattern.second))

\* trimmed.split(';').filter((s) => s.trim().length > 0).length
StatementCount(sql) ==
  Len(SelectSeq(Split(Trim(sql), ";"), LAMBDA part : Len(Trim(part)) > 0))

MatchesDenylist(sql) ==
  \E k \in 1..Len(DANGEROUS_PATTERNS) : PatternTest(DANGEROUS_PATTERNS[k], Trim(sql))

\* "" when the input passes, else the BadRequestError message
validateSql(sql) ==
  IF StatementCount(sql) > 1 THEN "Only single statements are allowed"
  ELSE IF MatchesDenylist(sql) THEN "Query contains disallowed operations"
  ELSE ""

isSelectQuery(sql) ==
  LET trimmed == ToUpperCase(Trim(sql))
  IN  StartsWith(trimmed, "SELECT") \/ StartsWith(trimmed, "WITH")

\* /\bLIMIT\b/i
HasLimit(sql) ==
  \E i \in 1..Len(sql) :
    IsBoundary(sql, i) /\ LiteralAt(sql, i, "LIMIT") /\ IsBoundary(sql, i + 5)

\* sql.replace(/;\s*$/, '')
StripTrailingSemicolon(sql) ==
  LET t == TrimEnd(sql)
  IN  IF Len(t) > 0 /\ CharAt(t, Len(t)) = ";" THEN SubSeq(t, 1, Len(t) - 1) ELSE sql

(***************************************************************************)
(* Gateway configuration (config/env.ts) and tenant data                   *)
(***************************************************************************)
defaultRowsLimit == 100
maxRowsPerQuery == 1000
statementTimeoutMs == 5000
CACHE_TTL_MS == 60000

\* clock granularity and horizon of the gateway specifications
TickMs == CACHE_TTL_MS \div 2
MaxTicks == 2

Requests == {"r1", "r2"}

\* the connection descriptor stored (encrypted) in project_db_creds
ConnStr(p, role) == [database |-> p, role |-> role]

\* services/project-db-creds.ts getCredentials: the two decrypted rows of p
getCredentials(p) == [owner |-> ConnStr(p, "owner"), app |-> ConnStr(p, "app")]

NoPool == [database |-> "", role |-> ""]
NoPools == [owner |-> NoPool, app |-> NoPool]

\* new Pool({ connectionString: creds.owner }) / creds.app
OpenPools(creds) == [owner |-> creds.owner, app |-> creds.app]

\* pools.app.query / pools.owner.query
queryAsApp_ownerPool(pools) == pools.owner

queryAsAppPool(pools) == pools.app

queryAsOwnerPool(pools) == pools.owner

\* tables.find((t) => t.tableName === table), as an index or 0
TableIndex(tables, name) ==
  LET hits == {i \in 1..Len(tables) : tables[i].tableName = name}
  IN  IF hits = {} THEN 0 ELSE CHOOSE i \in hits : \A j \in hits : i <= j

\* information_schema of each tenant database as provisioned: tables of
\* schema public
TenantTables(db) ==
  IF db = "p1" THEN << [tableName |-> "users", columns |-> <<"id", "name">>] >>
  ELSE IF db = "p2" THEN << [tableName |-> "users", columns |-> <<"id", "email">>],
                            [tableName |-> "orders", columns |-> <<"id">>] >>
  ELSE <<>>

\* CREATE TABLE name(col type, ...): the table the statement creates, or
\* <<>> when the statement creates none
CreatedTable(sql) ==
  LET head == "CREATE TABLE "
      open == {i \in 1..Len(sql) : CharAt(sql, i) = "("}
  IN  IF ~StartsWith(ToUpperCase(sql), head) \/ open = {} \/ CharAt(sql, Len(sql)) # ")" THEN <<>>
      ELSE LET o == CHOOSE i \in open : \A j \in open : i <= j
               defs == TrimAll(Split(SubSeq(sql, o + 1, Len(sql) - 1), ","))
           IN  << [tableName |-> Trim(SubSeq(sql, Len(head) + 1, o - 1)),
                   columns |-> [i \in 1..Len(defs) |-> Head(Split(defs[i], " "))]] >>

\* the tenant database after it executed an admin statement
ExecDdl(ddl, db, sql) ==
  LET made == CreatedTable(sql)
      old == TenantTables(db) \o ddl[db]
  IN  IF made = <<>> \/ TableIndex(old, made[1].tableName) # 0 THEN ddl
      ELSE [ddl EXCEPT ![db] = @ \o made]

\* information_schema.columns JOIN information_schema.tables, grouped by table
SchemaRows(ddl, db) == TenantTables(db) \o ddl[db]

TableNames(tables) == [i \in 1..Len(tables) |-> tables[i].tableName]

NoCache == [tables |-> <<>>, timestamp |-> NULL]

\* cached && Date.now() - cached.timestamp < CACHE_TTL_MS
CacheFresh(cached, t) == cached.timestamp # NULL /\ t - cached.timestamp < CACHE_TTL_MS

(***************************************************************************)
(* Request inputs                                                          *)
(***************************************************************************)
ApiKeyHeaders == {"pk_p1", "sk_p1", "pk_p2", "sk_p2", "sk_old"}

TableParams == {"users", "no-such", "ghosts"}

QueryStrings ==
  { <<>>,
    << <<"select", "id,nope">>, <<"order", "id.desc">>, <<"limit", "5">> >>,
    << <<"eq.name", "a">> >>,
    << <<"in.id", "1, 2">>, <<"gte.id", "0">> >>,
    << <<"eq.", "x">>, <<"like", "y">> >>,
    << <<"eq.nope", "1">> >>,
    << <<"select", "name, zz,id">> >>,
    << <<"select", "nope">> >> }

NoBody == [wellTyped |-> FALSE, rows |-> <<>>, values |-> <<>>, returning |-> FALSE]

InsertBodies ==
  { NoBody,
    [NoBody EXCEPT !.wellTyped = TRUE],
    [NoBody EXCEPT !.wellTyped = TRUE, !.rows = << << <<"name", "a">> >> >>],
    [NoBody EXCEPT !.wellTyped = TRUE, !.returning = TRUE,
                   !.rows = << << <<"id", "7">> >>, << <<"nope", "b">> >> >>] }

UpdateBodies ==
  { NoBody,
    [NoBody EXCEPT !.wellTyped = TRUE],
    [NoBody EXCEPT !.wellTyped = TRUE, !.values = << <<"id", "9">> >>],
    [NoBody EXCEPT !.wellTyped = TRUE, !.values = << <<"nope", "x">> >>, !.returning = TRUE] }

BucketParams == {"", "uploads"}

SqlInputs ==
  { "SELECT 1",
    "select * from users limit 5;",
    "CREATE TABLE t(id int)",
    "SELECT 1; DROP TABLE users",
    "drop  database x",
    "DROP ROLE r;",
    "COPY t TO PROGRAM 'sh'",
    "SELECT pg_sleep (9)",
    "DO $$ BEGIN END $$",
    "create\nextension x",
    "ALTER SYSTEM SET a = 1",
    "COPY t FROM\nPROGRAM 'sh'",
    "SELECT 'drop_role'" }

(***************************************************************************)
(* Statements and request records                                          *)
(***************************************************************************)
BaseStmt ==
  [kind |-> "", table |-> "", columns |-> <<>>, where |-> <<>>, order |-> <<>>,
   limit |-> NULL, offset |-> NULL, returning |-> FALSE, placeholders |-> <<>>,
   params |-> <<>>, text |-> "", rowCap |-> NULL]

NoResp == [status |-> 0, message |-> ""]

IdleReq ==
  [pc |-> "idle", route |-> "", apiKey |-> "", ctx |-> NoContext, project |-> "",
   table |-> "", query |-> <<>>, body |-> NoBody, bucket |-> "", sql |-> "",
   allowed |-> <<>>, rowIdx |-> 0, phase |-> "", tier |-> "", stmt |-> BaseStmt,
   pool |-> NoPool, resp |-> NoResp, data |-> <<>>, issued |-> 0,
   caps |-> [sqlMaxRows |-> 0, sqlStatementTimeoutMs |-> 0]]

\* outcomes of the synchronous part of a handler: an error or reply, or an
\* awaited tenant query, or an awaited object-store call
Reply(rq, status, message) ==
  [kind |-> "reply", rq |-> [rq EXCEPT !.resp = [status |-> status, message |-> message]]]

Query(rq, tier, phase, stmt) ==
  [kind |-> "query", rq |-> [rq EXCEPT !.tier = tier, !.phase = phase, !.stmt = stmt]]

ListCall(rq) == [kind |-> "list", rq |-> [rq EXCEPT !.phase = "list"]]

(***************************************************************************)
(* parseInt(s, 10) and the limit / offset arithmetic of crudService.select *)
(***************************************************************************)
Undefined == [defined |-> FALSE, nan |-> FALSE, n |-> 0]
NaN == [defined |-> TRUE, nan |-> TRUE, n |-> 0]

DigitValue(c) == (CHOOSE i \in 1..Len(Digits) : CharAt(Digits, i) = c) - 1

RECURSIVE DigitsPrefix(_, _, _)
DigitsPrefix(s, seen, acc) ==
  IF Len(s) > 0 /\ CharAt(s, 1) \in DigitSet
    THEN DigitsPrefix(Slice(s, 1), TRUE, acc * 10 + DigitValue(CharAt(s, 1)))
    ELSE [seen |-> seen, n |-> acc]

parseInt(str) ==
  LET t == TrimStart(str)
      neg == Len(t) > 0 /\ CharAt(t, 1) = "-"
      body == IF Len(t) > 0 /\ CharAt(t, 1) \in {"-", "+"} THEN Slice(t, 1) ELSE t
      d == DigitsPrefix(body, FALSE, 0)
  IN  IF ~d.seen THEN NaN
      ELSE [defined |-> TRUE, nan |-> FALSE, n |-> IF neg THEN 0 - d.n ELSE d.n]

\* query.limit ? parseInt(query.limit, 10) : undefined
OptionalInt(str) == IF str = "" THEN Undefined ELSE parseInt(str)

\* x || fallback
OrElse(x, fallback) == IF ~x.defined \/ x.nan \/ x.n = 0 THEN fallback ELSE x.n

MathMin(a, b) == IF a <= b THEN a ELSE b

(***************************************************************************)
(* services/crud.ts: the code of each operation after getTables returned   *)
(***************************************************************************)
ColumnsOf(entries) == [i \in 1..Len(entries) |-> entries[i][1]]
ValuesOf(entries) == [i \in 1..Len(entries) |-> entries[i][2]]

AllIncluded(allowed, cols) == \A i \in 1..Len(cols) : Includes(allowed, cols[i])

FilterColumns(filters) == [i \in 1..Len(filters) |-> filters[i].column]

SelectCompile(rq) ==
  LET order == parseOrder(QueryGet(rq.query, "order"))
      filters == parseFilters(rq.query)
      w == buildWhereClause(filters, 1)
      limit == MathMin(OrElse(OptionalInt(QueryGet(rq.query, "limit")), defaultRowsLimit),
                       maxRowsPerQuery)
      offset == OrElse(OptionalInt(QueryGet(rq.query, "offset")), 0)
  IN  IF order # NoOrder /\ ~Includes(rq.allowed, order.column)
        THEN Reply(rq, 400, "Invalid order column")
      ELSE IF ~AllIncluded(rq.allowed, FilterColumns(filters))
        THEN Reply(rq, 400, "Invalid filter column")
      ELSE Query(rq, "app", "data",
                 [BaseStmt EXCEPT !.kind = "SELECT", !.table = rq.table,
                    !.columns = buildSelectColumns(parseSelect(QueryGet(rq.query, "select")), rq.allowed),
                    !.where = w.conditions, !.params = w.values,
                    !.order = buildOrderClause(order), !.limit = limit, !.offset = offset])

\* one iteration of the row loop of insert, for row rq.rowIdx
InsertRow(rq) ==
  LET row == rq.body.rows[rq.rowIdx]
  IN  IF ~AllIncluded(rq.allowed, ColumnsOf(row))
        THEN Reply(rq, 400, "Invalid column")
      ELSE Query(rq, "app", "data",
                 [BaseStmt EXCEPT !.kind = "INSERT", !.table = rq.table,
                    !.columns = ColumnsOf(row), !.placeholders = Placeholders(1, Len(row)),
                    !.params = ValuesOf(row), !.returning = rq.body.returning])

UpdateCompile(rq) ==
  LET filters == parseFilters(rq.query)
      entries == rq.body.values
      w == buildWhereClause(filters, Len(entries) + 1)
  IN  IF ~AllIncluded(rq.allowed, FilterColumns(filters))
        THEN Reply(rq, 400, "Invalid filter column")
      ELSE IF ~AllIncluded(rq.allowed, ColumnsOf(entries))
        THEN Reply(rq, 400, "Invalid column")
      ELSE Query(rq, "app", "data",
                 [BaseStmt EXCEPT !.kind = "UPDATE", !.table = rq.table,
                    !.columns = ColumnsOf(entries), !.placeholders = Placeholders(1, Len(entries)),
                    !.where = w.conditions, !.params = ValuesOf(entries) \o w.values,
                    !.returning = rq.body.returning])

DeleteCompile(rq) ==
  LET filters == parseFilters(rq.query)
      w == buildWhereClause(filters, 1)
  IN  IF ~AllIncluded(rq.allowed, FilterColumns(filters))
        THEN Reply(rq, 400, "Invalid filter column")
      ELSE Query(rq, "app", "data",
                 [BaseStmt EXCEPT !.kind = "DELETE", !.table = rq.table,
                    !.where = w.conditions, !.params = w.values])

CrudAfterTables(rq, tables) ==
  IF rq.route = "tables" THEN Reply([rq EXCEPT !.data = TableNames(tables)], 200, "")
  ELSE LET k == TableIndex(tables, rq.table)
       IN  IF k = 0 THEN Reply(rq, 404, "Table not found")
           ELSE LET rq1 == [rq EXCEPT !.allowed = tables[k].columns, !.rowIdx = 1]
                IN  CASE rq.route = "select" -> SelectCompile(rq1)
                      [] rq.route = "insert" -> InsertRow(rq1)
                      [] rq.route = "update" -> UpdateCompile(rq1)
                      [] OTHER -> DeleteCompile(rq1)

\* the result of the awaited data statement: an error of the pg driver is
\* no AppError and is answered 500 by errorHandler
CrudAfterData(rq, ok) ==
  IF ~ok THEN Reply(rq, 500, "An unexpected error occurred")
  ELSE IF rq.route = "insert"
    THEN IF rq.rowIdx < Len(rq.body.rows)
           THEN InsertRow([rq EXCEPT !.rowIdx = rq.rowIdx + 1])
           ELSE Reply(rq, 201, "")
  ELSE Reply(rq, 200, "")

\* crudService.getTables up to its first await
GetTables(rq, cache, t) ==
  IF CacheFresh(cache[rq.project], t)
    THEN CrudAfterTables(rq, cache[rq.project].tables)
    ELSE Query(rq, "app", "schema", [BaseStmt EXCEPT !.kind = "SCHEMA"])

(***************************************************************************)
(* routes/public/db.ts and routes/public/storage.ts: the synchronous       *)
(* checks of each route handler                                            *)
(***************************************************************************)
PatchRequiresFilter_never(filters) == FALSE

PatchRequiresFilter(filters) == Len(filters) = 0

DeleteRequiresFilter(filters) == Len(filters) = 0

SelectHandler(rq, cache, t) ==
  IF ~tableNameSchema(rq.table) THEN Reply(rq, 400, "Invalid table name")
  ELSE GetTables(rq, cache, t)

InsertHandler(rq, cache, t) ==
  IF ~tableNameSchema(rq.table) THEN Reply(rq, 400, "Invalid table name")
  ELSE IF ~insertBodySchema(rq.body) THEN Reply(rq, 400, "Invalid request body")
  ELSE GetTables(rq, cache, t)

UpdateHandler(rq, cache, t) ==
  IF ~tableNameSchema(rq.table) THEN Reply(rq, 400, "Invalid table name")
  ELSE IF ~updateBodySchema(rq.body) THEN Reply(rq, 400, "Invalid request body")
  ELSE IF PatchRequiresFilter(parseFilters(rq.query))
    THEN Reply(rq, 400, "At least one filter is required for UPDATE")
  ELSE GetTables(rq, cache, t)

DeleteHandler(rq, cache, t) ==
  IF ~tableNameSchema(rq.table) THEN Reply(rq, 400, "Invalid table name")
  ELSE IF DeleteRequiresFilter(parseFilters(rq.query))
    THEN Reply(rq, 400, "At least one filter is required for DELETE")
  ELSE GetTables(rq, cache, t)

ListHandler(rq) ==
  IF rq.ctx.keyType # "secret" THEN Reply(rq, 403, "Secret key required to list objects")
  ELSE IF rq.bucket = "" THEN Reply(rq, 400, "bucket query parameter is required")
  ELSE ListCall(rq)

getPhysicalBucketName(projectId) == "proj-" \o projectId

(***************************************************************************)
(* services/sql.ts: executeAdminQuery                                      *)
(***************************************************************************)
TimeoutStmt == [BaseStmt EXCEPT !.kind = "SET", !.text = "statement_timeout", !.limit = statementTimeoutMs]

\* finalSql: the statement text, and the LIMIT appended to it (or NULL)
FinalSql(sql) ==
  IF isSelectQuery(sql) /\ ~HasLimit(sql)
    THEN [BaseStmt EXCEPT !.kind = "ADMIN", !.text = StripTrailingSemicolon(sql),
                          !.rowCap = maxRowsPerQuery]
    ELSE [BaseStmt EXCEPT !.kind = "ADMIN", !.text = sql]

\* validateSql(sql), then the first awaited statement
executeAdminQuery_timeoutFirst(rq) == Query(rq, "owner", "timeout", TimeoutStmt)

executeAdminQuery(rq) ==
  LET refusal == validateSql(rq.sql)
  IN  IF refusal # "" THEN Reply(rq, 400, refusal)
      ELSE Query(rq, "owner", "timeout", TimeoutStmt)

AdminAfterTimeout(rq, ok) ==
  IF ~ok THEN Reply(rq, 400, "SQL error")
  ELSE Query(rq, "owner", "admin", FinalSql(rq.sql))

AdminAfterQuery(rq, ok) ==
  IF ~ok THEN Reply(rq, 400, "SQL error") ELSE Reply(rq, 200, "")

(***************************************************************************)
(* db/project.ts: getProjectPools, queryAsOwner, queryAsApp, and the       *)
(* gateway actions                                                         *)
(***************************************************************************)
PoolFor(pools, tier) == IF tier = "owner" THEN queryAsOwnerPool(pools) ELSE queryAsAppPool(pools)

LogEntry(r, pool, stmt) == [req |-> r, pool |-> pool, stmt |-> stmt]

\* pools.<tier>.query(text, params): the statement leaves for the tenant database
Dispatch(r, rq, pools) ==
  /\ tenantLog' = tenantLog \cup {LogEntry(r, PoolFor(pools, rq.tier), rq.stmt)}
  /\ req' = [req EXCEPT ![r] = [rq EXCEPT !.pc = "query", !.pool = PoolFor(pools, rq.tier)]]

\* carry out the outcome of a synchronous stretch of handler code
Apply(r, out) ==
  CASE out.kind = "reply" ->
         /\ req' = [req EXCEPT ![r] = [out.rq EXCEPT !.pc = "done"]]
         /\ UNCHANGED <<tenantLog, storeLog, projectPools>>
    [] out.kind = "list" ->
         /\ storeLog' = storeLog \cup
              {[req |-> r, op |-> "ListObjectsV2", bucket |-> getPhysicalBucketName(out.rq.project)]}
         /\ req' = [req EXCEPT ![r] = [out.rq EXCEPT !.pc = "query"]]
         /\ UNCHANGED <<tenantLog, projectPools>>
    [] OTHER ->
         \* getProjectPools: the cached pools, or await getCredentials
         IF projectPools[out.rq.project] # NoPools
           THEN /\ Dispatch(r, out.rq, projectPools[out.rq.project])
                /\ UNCHANGED <<storeLog, projectPools>>
           ELSE /\ req' = [req EXCEPT ![r] = [out.rq EXCEPT !.pc = "creds"]]
                /\ UNCHANGED <<tenantLog, storeLog, projectPools>>

\* middleware/public-auth.ts: the onRequest hook of every /v1 route
PublicAuth(r, keys) ==
  /\ req[r].pc = "idle"
  /\ \E key \in keys :
       LET ctx == validateKey(key, api_keys, now)
           rq == [req[r] EXCEPT !.apiKey = key, !.ctx = ctx, !.project = ctx.projectId]
       IN  IF ctx = NoContext
             THEN req' = [req EXCEPT ![r] = [rq EXCEPT !.pc = "done", !.route = "auth",
                                                     !.resp = [status |-> 401, message |-> "Invalid API key"]]]
             ELSE req' = [req EXCEPT ![r] = [rq EXCEPT !.pc = "handler"]]
  /\ UNCHANGED <<api_keys, projectPools, tableInfoCache, now, tenantLog, storeLog,
                 keyVars, provVars, schedVars, adminVars, backupVars>>

\* GET /v1/db/tables
DbTables(r) ==
  /\ req[r].pc = "handler"
  /\ Apply(r, GetTables([req[r] EXCEPT !.route = "tables",
                                       !.issued = Len(tenantDdl[req[r].project])],
                         tableInfoCache, now))
  /\ UNCHANGED <<api_keys, tableInfoCache, now, keyVars, provVars, schedVars, adminVars, backupVars>>

\* GET /v1/db/:table
DbSelect(r, tableParams, queries) ==
  /\ req[r].pc = "handler"
  /\ \E table \in tableParams, query \in queries :
       Apply(r, SelectHandler([req[r] EXCEPT !.route = "select", !.table = table, !.query = query],
                              tableInfoCache, now))
  /\ UNCHANGED <<api_keys, tableInfoCache, now, keyVars, provVars, schedVars, adminVars, backupVars>>

\* POST /v1/db/:table
DbInsert(r, tableParams, bodies) ==
  /\ req[r].pc = "handler"
  /\ \E table \in tableParams, body \in bodies :
       Apply(r, InsertHandler([req[r] EXCEPT !.route = "insert", !.table = table, !.body = body],
                              tableInfoCache, now))
  /\ UNCHANGED <<api_keys, tableInfoCache, now, keyVars, provVars, schedVars, adminVars, backupVars>>

\* PATCH /v1/db/:table
DbUpdate(r, tableParams, queries, bodies) ==
  /\ req[r].pc = "handler"
  /\ \E table \in tableParams, query \in queries, body \in bodies :
       Apply(r, UpdateHandler([req[r] EXCEPT !.route = "update", !.table = table,
                                             !.query = query, !.body = body],
                              tableInfoCache, now))
  /\ UNCHANGED <<api_keys, tableInfoCache, now, keyVars, provVars, schedVars, adminVars, backupVars>>

\* DELETE /v1/db/:table
DbDelete(r, tableParams, queries) ==
  /\ req[r].pc = "handler"
  /\ \E table \in tableParams, query \in queries :
       Apply(r, DeleteHandler([req[r] EXCEPT !.route = "delete", !.table = table, !.query = query],
                              tableInfoCache, now))
  /\ UNCHANGED <<api_keys, tableInfoCache, now, keyVars, provVars, schedVars, adminVars, backupVars>>

\* GET /v1/storage/list
StorageList(r) ==
  /\ req[r].pc = "handler"
  /\ \E bucket \in BucketParams :
       Apply(r, ListHandler([req[r] EXCEPT !.route = "list", !.bucket = bucket]))
  /\ UNCHANGED <<api_keys, tableInfoCache, now, keyVars, provVars, schedVars, adminVars, backupVars>>

\* POST /admin/projects/:id/sql (session authentication is external)
AdminSql(r, sqls) ==
  /\ req[r].pc = "idle"
  /\ \E p \in Projects, sql \in sqls :
       Apply(r, executeAdminQuery([req[r] EXCEPT !.route = "sql", !.project = p, !.sql = sql,
                                               !.caps = settings]))
  /\ UNCHANGED <<api_keys, tableInfoCache, now, keyVars, provVars, schedVars, adminVars, backupVars>>

\* PUT /admin/settings/database-limits with body {sqlMaxRows?, sqlStatementTimeoutMs?},
\* NULL standing for an absent field: the two checks of the route, then
\* runtimeSettings.updateDbLimits (the audit entry and the reply follow)
UpdateDbLimits(bodies) ==
  /\ \E body \in bodies :
       IF body.sqlMaxRows # NULL /\ body.sqlMaxRows < 1 THEN UNCHANGED settings
       ELSE IF body.sqlStatementTimeoutMs # NULL /\ body.sqlStatementTimeoutMs < 100
         THEN UNCHANGED settings
       ELSE LET sqlMaxRows == IF body.sqlMaxRows # NULL THEN body.sqlMaxRows
                                                         ELSE settings.sqlMaxRows
                sqlStatementTimeoutMs ==
                  IF body.sqlStatementTimeoutMs # NULL THEN body.sqlStatementTimeoutMs
                                                       ELSE settings.sqlStatementTimeoutMs
            IN  settings' =
                  [sqlMaxRows |-> IF sqlMaxRows > 0 THEN sqlMaxRows ELSE settings.sqlMaxRows,
                   sqlStatementTimeoutMs |->
                     IF sqlStatementTimeoutMs > 0 THEN sqlStatementTimeoutMs
                                                  ELSE settings.sqlStatementTimeoutMs]
  /\ UNCHANGED <<api_keys, apiVars, keyVars, provVars, schedVars, tenantDdl, whereCall, auxVars, backupVars>>

\* getProjectPools after await getCredentials: open both pools, store them
\* in the map, and send the waiting statement
CredsLoaded(r) ==
  /\ req[r].pc = "creds"
  /\ LET pools == OpenPools(getCredentials(req[r].project))
     IN  /\ projectPools' = [projectPools EXCEPT ![req[r].project] = pools]
         /\ Dispatch(r, req[r], pools)
  /\ UNCHANGED <<api_keys, tableInfoCache, now, storeLog, keyVars, provVars, schedVars, adminVars, backupVars>>

\* the awaited statement (or object-store call) settles, ok or with an error
QueryReturn(r) ==
  /\ req[r].pc = "query"
  /\ \E ok \in BOOLEAN :
       LET rq == req[r]
           tables == SchemaRows(tenantDdl, rq.pool.database)
       IN  /\ tenantDdl' = IF rq.phase = "admin" /\ ok
                             THEN ExecDdl(tenantDdl, rq.pool.database, rq.stmt.text)
                             ELSE tenantDdl
           /\ CASE rq.phase = "schema" ->
                     IF ok
                       THEN /\ tableInfoCache' = [tableInfoCache EXCEPT ![rq.project] =
                                                    [tables |-> tables, timestamp |-> now]]
                            /\ Apply(r, CrudAfterTables(rq, tables))
                       ELSE /\ Apply(r, Reply(rq, 500, "An unexpected error occurred"))
                            /\ UNCHANGED tableInfoCache
                [] rq.phase = "data" ->
                     Apply(r, CrudAfterData(rq, ok)) /\ UNCHANGED tableInfoCache
                [] rq.phase = "list" ->
                     /\ Apply(r, IF ok THEN Reply(rq, 200, "")
                                       ELSE Reply(rq, 500, "An unexpected error occurred"))
                     /\ UNCHANGED tableInfoCache
                [] rq.phase = "timeout" ->
                     Apply(r, AdminAfterTimeout(rq, ok)) /\ UNCHANGED tableInfoCache
                [] OTHER ->
                     Apply(r, AdminAfterQuery(rq, ok)) /\ UNCHANGED tableInfoCache
  /\ UNCHANGED <<api_keys, now, keyVars, provVars, schedVars, settings, whereCall, auxVars, backupVars>>

\* the reply is sent; the slot and its trace are released
Finish(r) ==
  /\ req[r].pc = "done"
  /\ req' = [req EXCEPT ![r] = IdleReq]
  /\ tenantLog' = {e \in tenantLog : e.req # r}
  /\ storeLog' = {e \in storeLog : e.req # r}
  /\ UNCHANGED <<api_keys, projectPools, tableInfoCache, now, keyVars, provVars, schedVars, adminVars, backupVars>>

Tick ==
  /\ now < MaxTicks * TickMs
  /\ now' = now + TickMs
  /\ UNCHANGED <<api_keys, projectPools, tableInfoCache, req, tenantLog, storeLog,
                 keyVars, provVars, schedVars, adminVars, backupVars>>

(***************************************************************************)
(* services/api-keys: rotateKey and revokeKey over the api_keys table, and *)
(* db/platform.ts transaction.  A transaction's writes are held in the     *)
(* caller's record until COMMIT applies them to the table.                 *)
(***************************************************************************)
Callers == {"k1", "k2"}

MaxRotations == 2

MaxKeyTicks == 1

\* key ids a caller passes to revokeKey: an active key, a revoked key, an
\* expiring key, a key issued by a rotation, and an id no row has
RevokeIds == {2, 5, 6, 7, 99}

IdleKeyOp ==
  [pc |-> "idle", op |-> "", projectId |-> "", keyType |-> "", newKey |-> "",
   newKeyId |-> NULL, keyId |-> NULL, before |-> <<>>, revoke |-> {}, insert |-> <<>>,
   error |-> ""]

\* the table of SpecKeys: the seeded keys and one key that expires
KeysSeed ==
  SeedKeys \o << [KeyRow(6, "p2", "publishable", "pk_exp") EXCEPT !.expires_at = TickMs] >>

MaxOf(S) == CHOOSE x \in S : \A y \in S : y <= x

\* randomUUID(): an id no row and no call in progress holds
randomUUID(rows, ops) ==
  MaxOf({0} \cup {rows[i].id : i \in 1..Len(rows)}
            \cup {ops[c].newKeyId : c \in DOMAIN ops}) + 1

\* prefix_base64url(32 random bytes): the random part is fresh for each id
generateApiKey(prefix, id) == prefix \o "_" \o ToString(id)

KeyPrefix(keyType) == IF keyType = "publishable" THEN "pk" ELSE "sk"

\* UPDATE api_keys SET revoked_at = NOW()
\*  WHERE project_id = $1 AND key_type = $2 AND revoked_at IS NULL
RevokeTargets(rows, projectId, keyType) ==
  {rows[i].id : i \in {j \in 1..Len(rows) :
      /\ rows[j].project_id = projectId
      /\ rows[j].key_type = keyType
      /\ rows[j].revoked_at = NULL}}

RevokeRows(rows, ids, t) ==
  [i \in 1..Len(rows) |->
     IF rows[i].id \in ids /\ rows[i].revoked_at = NULL
       THEN [rows[i] EXCEPT !.revoked_at = t] ELSE rows[i]]

\* the error reaches the caller; the catch block of transaction has rolled
\* the pending writes back
KeyOpFails(c, message) ==
  keyOp' = [keyOp EXCEPT ![c] = [@ EXCEPT !.pc = "failed", !.error = message,
                                         !.revoke = {}, !.insert = <<>>]]

\* apiKeyService.rotateKey up to platformDb.transaction
RotateKey(c) ==
  /\ keyOp[c].pc = "idle"
  /\ randomUUID(api_keys, keyOp) <= Len(KeysSeed) + MaxRotations
  /\ \E projectId \in Projects, keyType \in KeyTypes :
       LET newKeyId == randomUUID(api_keys, keyOp)
       IN  keyOp' = [keyOp EXCEPT ![c] =
             [IdleKeyOp EXCEPT !.pc = "begin", !.op = "rotate", !.projectId = projectId,
                               !.keyType = keyType, !.newKeyId = newKeyId,
                               !.newKey = generateApiKey(KeyPrefix(keyType), newKeyId),
                               !.before = api_keys]]
  /\ UNCHANGED <<api_keys, apiVars, provVars, schedVars, adminVars, backupVars>>

\* pool.connect() and BEGIN
TxBegin(c) ==
  /\ keyOp[c].pc = "begin"
  /\ \E ok \in BOOLEAN :
       IF ok THEN keyOp' = [keyOp EXCEPT ![c].pc = "update"]
       ELSE KeyOpFails(c, "connection error")
  /\ UNCHANGED <<api_keys, apiVars, provVars, schedVars, adminVars, backupVars>>

\* the rows another caller's open transaction has updated and so locked
LockedByOthers(c) ==
  UNION {keyOp[o].revoke : o \in {x \in Callers \ {c} : keyOp[x].pc \in {"insert", "commit"}}}

\* "Revoke old key".  Under READ COMMITTED the UPDATE finds its rows in the
\* snapshot taken when the statement starts, and waits for the transaction
\* that holds the lock of any of them.
RotateRevokeOld(c) ==
  /\ keyOp[c].pc = "update"
  /\ \E ok \in BOOLEAN :
       IF ok
         THEN LET targets == RevokeTargets(api_keys, keyOp[c].projectId, keyOp[c].keyType)
              IN  keyOp' = [keyOp EXCEPT ![c].revoke = targets,
                              ![c].pc = IF targets \cap LockedByOthers(c) = {}
                                          THEN "insert" ELSE "blocked"]
         ELSE KeyOpFails(c, "database error")
  /\ UNCHANGED <<api_keys, apiVars, provVars, schedVars, adminVars, backupVars>>

\* the lock is released: the UPDATE goes on with the rows it had found,
\* re-checking revoked_at IS NULL on each (a row inserted meanwhile is not
\* among them)
RotateRevokeResume(c) ==
  /\ keyOp[c].pc = "blocked"
  /\ keyOp[c].revoke \cap LockedByOthers(c) = {}
  /\ keyOp' = [keyOp EXCEPT ![c].pc = "insert",
                  ![c].revoke = {id \in @ : \E i \in 1..Len(api_keys) :
                                   api_keys[i].id = id /\ api_keys[i].revoked_at = NULL}]
  /\ UNCHANGED <<api_keys, apiVars, provVars, schedVars, adminVars, backupVars>>

\* "Create new key"
RotateInsertNew(c) ==
  /\ keyOp[c].pc = "insert"
  /\ \E ok \in BOOLEAN :
       IF ok
         THEN keyOp' = [keyOp EXCEPT ![c].pc = "commit",
                          ![c].insert = << KeyRow(keyOp[c].newKeyId, keyOp[c].projectId,
                                                  keyOp[c].keyType, keyOp[c].newKey) >>]
         ELSE KeyOpFails(c, "database error")
  /\ UNCHANGED <<api_keys, apiVars, provVars, schedVars, adminVars, backupVars>>

\* COMMIT
TxCommit(c) ==
  /\ keyOp[c].pc = "commit"
  /\ \E ok \in BOOLEAN :
       IF ok
         THEN /\ api_keys' = RevokeRows(api_keys, keyOp[c].revoke, now) \o keyOp[c].insert
              /\ keyOp' = [keyOp EXCEPT ![c].pc = "select", ![c].revoke = {}, ![c].insert = <<>>]
         ELSE KeyOpFails(c, "database error") /\ UNCHANGED api_keys
  /\ UNCHANGED <<apiVars, provVars, schedVars, adminVars, backupVars>>

\* SELECT * FROM api_keys WHERE id = $1, and the return
RotateSelectNew(c) ==
  /\ keyOp[c].pc = "select"
  /\ \E ok \in BOOLEAN :
       IF ~ok THEN KeyOpFails(c, "database error")
       ELSE IF \A i \in 1..Len(api_keys) : api_keys[i].id # keyOp[c].newKeyId
         THEN KeyOpFails(c, "Failed to create new API key")
       ELSE keyOp' = [keyOp EXCEPT ![c].pc = "returned"]
  /\ UNCHANGED <<api_keys, apiVars, provVars, schedVars, adminVars, backupVars>>

\* apiKeyService.revokeKey
RevokeKey(c) ==
  /\ keyOp[c].pc = "idle"
  /\ \E keyId \in RevokeIds \ LockedByOthers(c), ok \in BOOLEAN :
       LET hit == {i \in 1..Len(api_keys) :
                     api_keys[i].id = keyId /\ api_keys[i].revoked_at = NULL}
           op == [IdleKeyOp EXCEPT !.op = "revoke", !.keyId = keyId, !.before = api_keys]
       IN  IF ~ok
             THEN /\ keyOp' = [keyOp EXCEPT ![c] = [op EXCEPT !.pc = "failed", !.error = "database error"]]
                  /\ UNCHANGED api_keys
           ELSE IF hit = {}
             THEN /\ keyOp' = [keyOp EXCEPT ![c] =
                                 [op EXCEPT !.pc = "failed",
                                            !.error = "API key not found or already revoked"]]
                  /\ UNCHANGED api_keys
           ELSE /\ api_keys' = RevokeRows(api_keys, {keyId}, now)
                /\ keyOp' = [keyOp EXCEPT ![c] = [op EXCEPT !.pc = "returned"]]
  /\ UNCHANGED <<apiVars, provVars, schedVars, adminVars, backupVars>>

\* the caller has its result
KeyOpDone(c) ==
  /\ keyOp[c].pc \in {"returned", "failed"}
  /\ keyOp' = [keyOp EXCEPT ![c] = IdleKeyOp]
  /\ UNCHANGED <<api_keys, apiVars, provVars, schedVars, adminVars, backupVars>>

\* NOW() of the platform database advances
KeyClock ==
  /\ now < MaxKeyTicks * TickMs
  /\ now' = now + TickMs
  /\ UNCHANGED <<api_keys, projectPools, tableInfoCache, req, tenantLog, storeLog,
                 keyVars, provVars, schedVars, adminVars, backupVars>>

(***************************************************************************)
(* services/project.ts: createProject and deleteProject, with the cluster  *)
(* (databases, roles), the object store (buckets, objects) and the         *)
(* platform tables they act on                                             *)
(***************************************************************************)
MaxNewProjects == 1

\* randomUUID() of createProject: ids of the form p-<n>
NewProjectIds == {"p-" \o ToString(n) : n \in 1..MaxNewProjects}

RECURSIVE ReplaceAll(_, _, _)
ReplaceAll(s, from, to) ==
  IF Len(s) = 0 THEN ""
  ELSE (IF CharAt(s, 1) = from THEN to ELSE CharAt(s, 1)) \o ReplaceAll(Slice(s, 1), from, to)

dbName(projectId) == "proj_" \o ReplaceAll(projectId, "-", "_")
ownerRole(projectId) == dbName(projectId) \o "_owner"
appRole(projectId) == dbName(projectId) \o "_app"

Database(projectId) == [kind |-> "database", name |-> dbName(projectId)]
OwnerRole(projectId) == [kind |-> "role", name |-> ownerRole(projectId)]
AppRole(projectId) == [kind |-> "role", name |-> appRole(projectId)]
Bucket(projectId) == [kind |-> "bucket", name |-> getPhysicalBucketName(projectId)]
Object(projectId) == [kind |-> "object", name |-> getPhysicalBucketName(projectId)]

Row(table, projectId, tag) == [table |-> table, project_id |-> projectId, tag |-> tag]

\* everything a provisioned project has in the cluster and the object store
Provisioned(projectId) ==
  {Database(projectId), OwnerRole(projectId), AppRole(projectId), Bucket(projectId)}

\* the rows a provisioned project has in the platform tables other than api_keys
ProjectRows(projectId) ==
  { Row("projects", projectId, ""),
    Row("project_db_creds", projectId, "owner"), Row("project_db_creds", projectId, "app"),
    Row("buckets", projectId, "private"), Row("buckets", projectId, "uploads") }

IdleProv ==
  [pc |-> "idle", op |-> "", id |-> "", step |-> 0, error |-> "", firstError |-> "",
   dropsOk |-> TRUE, pending |-> {}, newKeys |-> <<>>, returned |-> <<>>]

\* the statements of createProject before the transaction
CreateDdl ==
  << "CREATE DATABASE", "CREATE ROLE owner", "CREATE ROLE app",
     "GRANT ALL PRIVILEGES ON DATABASE", "GRANT CONNECT ON DATABASE" >>

CreateGrants ==
  << "GRANT ALL ON SCHEMA", "DEFAULT PRIVILEGES TABLES owner", "DEFAULT PRIVILEGES SEQUENCES owner",
     "GRANT USAGE ON SCHEMA", "DEFAULT PRIVILEGES TABLES app", "DEFAULT PRIVILEGES SEQUENCES app" >>

\* the awaited calls inside the transaction callback of createProject
CreateTx ==
  << "INSERT projects", "INSERT project_db_creds owner", "INSERT project_db_creds app",
     "INSERT api_keys publishable", "INSERT api_keys secret", "createProjectBucket",
     "INSERT buckets private", "INSERT buckets uploads" >>

CleanupDrops == << "DROP DATABASE IF EXISTS", "DROP ROLE IF EXISTS owner", "DROP ROLE IF EXISTS app" >>

DeleteTx ==
  << "DELETE file_metadata", "DELETE buckets", "DELETE api_keys", "DELETE project_db_creds",
     "DELETE audit_logs", "DELETE projects" >>

DeleteBucketCalls == << "ListObjectsV2", "DeleteObject", "DeleteBucket" >>

\* what a successful statement creates in the cluster
Created(statement, projectId) ==
  CASE statement = "CREATE DATABASE" -> {Database(projectId)}
    [] statement = "CREATE ROLE owner" -> {OwnerRole(projectId)}
    [] statement = "CREATE ROLE app" -> {AppRole(projectId)}
    [] statement = "createProjectBucket" -> {Bucket(projectId)}
    [] OTHER -> {}

\* what a successful statement removes from the cluster or the object store
Dropped(statement, projectId) ==
  CASE statement \in {"DROP DATABASE IF EXISTS"} -> {Database(projectId)}
    [] statement = "DROP ROLE IF EXISTS owner" -> {OwnerRole(projectId)}
    [] statement = "DROP ROLE IF EXISTS app" -> {AppRole(projectId)}
    [] statement = "DeleteObject" -> {Object(projectId)}
    [] statement = "DeleteBucket" -> {Bucket(projectId)}
    [] OTHER -> {}

\* the row an INSERT of the transaction adds once committed
Inserted(statement, projectId) ==
  CASE statement = "INSERT projects" -> {Row("projects", projectId, "")}
    [] statement = "INSERT project_db_creds owner" -> {Row("project_db_creds", projectId, "owner")}
    [] statement = "INSERT project_db_creds app" -> {Row("project_db_creds", projectId, "app")}
    [] statement = "INSERT api_keys publishable" -> {Row("api_keys", projectId, "publishable")}
    [] statement = "INSERT api_keys secret" -> {Row("api_keys", projectId, "secret")}
    [] statement = "INSERT buckets private" -> {Row("buckets", projectId, "private")}
    [] statement = "INSERT buckets uploads" -> {Row("buckets", projectId, "uploads")}
    [] OTHER -> {}

\* a step throws: the error on its way to the caller, and the block to run next
Throws(error, pc) ==
  prov' = [prov EXCEPT !.error = error, !.pc = pc, !.step = 1,
                       !.firstError = IF prov.firstError = "" THEN error ELSE @]

\* createProject up to the first statement
CreateProject ==
  /\ prov.pc = "idle"
  /\ \E projectId \in NewProjectIds :
       /\ \A thing \in infra : thing.name \notin {dbName(projectId), getPhysicalBucketName(projectId)}
       /\ \A row \in platformRows : row.project_id # projectId
       /\ LET keyId == randomUUID(api_keys, keyOp)
          IN  prov' = [IdleProv EXCEPT !.pc = "ddl", !.op = "create", !.id = projectId, !.step = 1,
                         !.newKeys = << [id |-> keyId, key |-> generateApiKey("pk", keyId)],
                                        [id |-> keyId + 1, key |-> generateApiKey("sk", keyId + 1)] >>]
  /\ UNCHANGED <<api_keys, apiVars, keyVars, infra, platformRows, schedVars, adminVars, backupVars>>

\* CREATE DATABASE, CREATE ROLE and GRANT on the platform connection
CreateDdlStep ==
  /\ prov.pc = "ddl"
  /\ \E ok \in BOOLEAN :
       IF ok
         THEN /\ infra' = infra \cup Created(CreateDdl[prov.step], prov.id)
              /\ prov' = IF prov.step < Len(CreateDdl)
                           THEN [prov EXCEPT !.step = @ + 1]
                           ELSE [prov EXCEPT !.pc = "grants", !.step = 1]
         ELSE Throws(CreateDdl[prov.step], "cleanup") /\ UNCHANGED infra
  /\ UNCHANGED <<api_keys, apiVars, keyVars, platformRows, schedVars, adminVars, backupVars>>

\* the schema grants on tempPool; an error leaves through the finally block
CreateGrantStep ==
  /\ prov.pc = "grants"
  /\ \E ok \in BOOLEAN :
       IF ok
         THEN prov' = IF prov.step < Len(CreateGrants)
                        THEN [prov EXCEPT !.step = @ + 1]
                        ELSE [prov EXCEPT !.pc = "poolend"]
         ELSE Throws(CreateGrants[prov.step], "poolend")
  /\ UNCHANGED <<api_keys, apiVars, keyVars, infra, platformRows, schedVars, adminVars, backupVars>>

\* finally { await tempPool.end() }: an error thrown here replaces the one in flight
TempPoolEnd ==
  /\ prov.pc = "poolend"
  /\ \E ok \in BOOLEAN :
       IF ~ok THEN Throws("tempPool.end", "cleanup")
       ELSE IF prov.error # "" THEN prov' = [prov EXCEPT !.pc = "cleanup", !.step = 1]
       ELSE prov' = [prov EXCEPT !.pc = "txbegin"]
  /\ UNCHANGED <<api_keys, apiVars, keyVars, infra, platformRows, schedVars, adminVars, backupVars>>

\* the catch blocks of createProject: each DROP with .catch(() => {}), then throw error
CreateCleanupStep ==
  /\ prov.pc = "cleanup"
  /\ \E ok \in BOOLEAN :
       /\ infra' = IF ok THEN infra \ Dropped(CleanupDrops[prov.step], prov.id) ELSE infra
       /\ prov' = [prov EXCEPT !.dropsOk = @ /\ ok,
                               !.step = IF prov.step < Len(CleanupDrops) THEN @ + 1 ELSE @,
                               !.pc = IF prov.step < Len(CleanupDrops) THEN @ ELSE "failed"]
  /\ UNCHANGED <<api_keys, apiVars, keyVars, platformRows, schedVars, adminVars, backupVars>>

\* the block that handles an error of platformDb.transaction in each operation
AfterTransactionError_rethrow(op) == "failed"

AfterTransactionError(op) == IF op = "create" THEN "cleanup" ELSE "failed"

\* platformDb.transaction: pool.connect() and BEGIN
ProvTxBegin ==
  /\ prov.pc = "txbegin"
  /\ \E outcome \in {"ok", "pool.connect", "BEGIN"} :
       CASE outcome = "ok" -> prov' = [prov EXCEPT !.pc = "tx", !.step = 1]
         [] outcome = "pool.connect" -> Throws(outcome, AfterTransactionError(prov.op))
         [] OTHER -> Throws(outcome, "rollback")
  /\ UNCHANGED <<api_keys, apiVars, keyVars, infra, platformRows, schedVars, adminVars, backupVars>>

\* the transaction callback of createProject, one awaited call at a time
CreateTxStep ==
  /\ prov.op = "create" /\ prov.pc = "tx"
  /\ \E ok \in BOOLEAN :
       IF ok
         THEN /\ infra' = infra \cup Created(CreateTx[prov.step], prov.id)
              /\ prov' = [prov EXCEPT !.pending = @ \cup Inserted(CreateTx[prov.step], prov.id),
                                      !.step = IF prov.step < Len(CreateTx) THEN @ + 1 ELSE @,
                                      !.pc = IF prov.step < Len(CreateTx) THEN @ ELSE "commit"]
         ELSE Throws(CreateTx[prov.step], "rollback") /\ UNCHANGED infra
  /\ UNCHANGED <<api_keys, apiVars, keyVars, platformRows, schedVars, adminVars, backupVars>>

KeyRowsOf(p) ==
  IF Row("api_keys", p.id, "publishable") \in p.pending /\ Row("api_keys", p.id, "secret") \in p.pending
    THEN << KeyRow(p.newKeys[1].id, p.id, "publishable", p.newKeys[1].key),
            KeyRow(p.newKeys[2].id, p.id, "secret", p.newKeys[2].key) >>
    ELSE <<>>

\* COMMIT: the pending rows become visible (createProject), or the rows of
\* the project are gone (deleteProject)
ProvTxCommit ==
  /\ prov.pc = "commit"
  /\ \E ok \in BOOLEAN :
       IF ~ok THEN Throws("COMMIT", "rollback") /\ UNCHANGED <<api_keys, platformRows>>
       ELSE IF prov.op = "create"
         THEN /\ platformRows' = platformRows \cup {row \in prov.pending : row.table # "api_keys"}
              /\ api_keys' = api_keys \o KeyRowsOf(prov)
              /\ prov' = [prov EXCEPT !.pc = "returned", !.pending = {},
                                      !.returned = <<prov.newKeys[1].key, prov.newKeys[2].key>>]
       ELSE /\ platformRows' = {row \in platformRows : row.project_id # prov.id}
            /\ api_keys' = SelectSeq(api_keys, LAMBDA row : row.project_id # prov.id)
            /\ prov' = [prov EXCEPT !.pc = "drops", !.step = 1, !.pending = {}]
  /\ UNCHANGED <<apiVars, keyVars, infra, schedVars, adminVars, backupVars>>

\* catch (error) { await client.query('ROLLBACK'); throw error }: an error of
\* ROLLBACK itself replaces the one in flight
ProvTxRollback ==
  /\ prov.pc = "rollback"
  /\ \E ok \in BOOLEAN :
       IF ok THEN prov' = [prov EXCEPT !.pc = AfterTransactionError(prov.op), !.step = 1, !.pending = {}]
       ELSE prov' = [prov EXCEPT !.pc = AfterTransactionError(prov.op), !.step = 1, !.pending = {},
                                 !.error = "ROLLBACK"]
  /\ UNCHANGED <<api_keys, apiVars, keyVars, infra, platformRows, schedVars, adminVars, backupVars>>

\* ids the admin API is asked to delete: a provisioned project, a project
\* made by createProject, and an id no project has
DeleteIds == {"p1", "none"} \cup NewProjectIds

\* deleteProject: getProject and the NotFound check
DeleteProject ==
  /\ prov.pc = "idle"
  /\ \E id \in DeleteIds, ok \in BOOLEAN :
       LET p == [IdleProv EXCEPT !.op = "delete", !.id = id]
       IN  IF ~ok THEN prov' = [p EXCEPT !.pc = "failed", !.error = "getProject", !.firstError = "getProject"]
           ELSE IF Row("projects", id, "") \notin platformRows
             THEN prov' = [p EXCEPT !.pc = "failed", !.error = "Project not found",
                                    !.firstError = "Project not found"]
           ELSE prov' = [p EXCEPT !.pc = "closepools"]
  /\ UNCHANGED <<api_keys, apiVars, keyVars, infra, platformRows, schedVars, adminVars, backupVars>>

\* projectDb.closeProjectPools
ClosePools ==
  /\ prov.pc = "closepools"
  /\ IF prov.id \notin DOMAIN projectPools \/ projectPools[prov.id] = NoPools
       THEN prov' = [prov EXCEPT !.pc = "txbegin"] /\ UNCHANGED projectPools
       ELSE \E ok \in BOOLEAN :
              IF ok THEN /\ projectPools' = [projectPools EXCEPT ![prov.id] = NoPools]
                         /\ prov' = [prov EXCEPT !.pc = "txbegin"]
              ELSE Throws("pool.end", "failed") /\ UNCHANGED projectPools
  /\ UNCHANGED <<api_keys, tableInfoCache, now, req, tenantLog, storeLog, keyVars, infra,
                 platformRows, schedVars, adminVars, backupVars>>

\* the transaction callback of deleteProject, one DELETE at a time
DeleteTxStep ==
  /\ prov.op = "delete" /\ prov.pc = "tx"
  /\ \E ok \in BOOLEAN :
       IF ok
         THEN prov' = [prov EXCEPT !.step = IF prov.step < Len(DeleteTx) THEN @ + 1 ELSE @,
                                   !.pc = IF prov.step < Len(DeleteTx) THEN @ ELSE "commit"]
         ELSE Throws(DeleteTx[prov.step], "rollback")
  /\ UNCHANGED <<api_keys, apiVars, keyVars, infra, platformRows, schedVars, adminVars, backupVars>>

\* DROP DATABASE and DROP ROLE of deleteProject: an error reaches the caller
DeleteDropStep ==
  /\ prov.pc = "drops"
  /\ \E ok \in BOOLEAN :
       IF ok
         THEN /\ infra' = infra \ Dropped(CleanupDrops[prov.step], prov.id)
              /\ prov' = IF prov.step < Len(CleanupDrops)
                           THEN [prov EXCEPT !.step = @ + 1]
                           ELSE [prov EXCEPT !.pc = "bucket", !.step = 1]
         ELSE Throws(CleanupDrops[prov.step], "failed") /\ UNCHANGED infra
  /\ UNCHANGED <<api_keys, apiVars, keyVars, platformRows, schedVars, adminVars, backupVars>>

\* storageService.deleteProjectBucket: list, delete the objects, delete the bucket
DeleteBucketStep ==
  /\ prov.pc = "bucket"
  /\ \E ok \in BOOLEAN :
       LET call == DeleteBucketCalls[prov.step]
           \* DeleteBucket of a bucket that does not exist is an error of the store
           works == ok /\ (Bucket(prov.id) \in infra)
           next == IF call = "ListObjectsV2" /\ Object(prov.id) \notin infra THEN 3 ELSE prov.step + 1
       IN  IF works
             THEN /\ infra' = infra \ Dropped(call, prov.id)
                  /\ prov' = IF call = "DeleteBucket" THEN [prov EXCEPT !.pc = "returned"]
                             ELSE [prov EXCEPT !.step = next]
             ELSE Throws(call, "failed") /\ UNCHANGED infra
  /\ UNCHANGED <<api_keys, apiVars, keyVars, platformRows, schedVars, adminVars, backupVars>>

\* the caller has its result
ProvDone ==
  /\ prov.pc \in {"returned", "failed"}
  /\ prov' = IdleProv
  /\ UNCHANGED <<api_keys, apiVars, keyVars, infra, platformRows, schedVars, adminVars, backupVars>>

(***************************************************************************)
(* scheduler/src/scheduler.ts: syncJobs, scheduleJob, the Cron callback and *)
(* executeJobWithRetries, one action per stretch between awaits            *)
(***************************************************************************)
maxConcurrentJobs == 2

MaxDispatches == 3

MaxRuns == 3

Jobs == {"j1"}

\* cron_jobs.retries and retry_backoff_ms of each job
JobConfig == [j \in Jobs |-> [retries |-> 1, retryBackoffMs |-> 1000]]

\* Math.max(1, job.retries + 1)
Attempts(job) == IF job.retries + 1 > 1 THEN job.retries + 1 ELSE 1

\* runningJobs >= config.scheduler.maxConcurrentJobs
AtCapacity_never(n) == FALSE

AtCapacity(n) == n >= maxConcurrentJobs

(***************************************************************************)
(* AES-256-GCM as the two services use it.  A ciphertext names the key,    *)
(* the iv and the plaintext it was made from; the tag verifies under the   *)
(* same key and iv only.                                                   *)
(***************************************************************************)
CryptoError == [ok |-> FALSE, text |-> ""]

\* the key of a secret that getMasterKeyBuffer refuses
NoKey == <<"error">>

Seal(key, plaintext, iv) ==
  [data |-> <<"aes-256-gcm", key, iv, plaintext>>, iv |-> iv,
   authTag |-> <<"tag", key, iv, plaintext>>]

\* createDecipheriv / setAuthTag / update / final
Open(key, data, iv, authTag) ==
  IF key = NoKey THEN CryptoError
  ELSE IF data[2] = key /\ data[3] = iv /\ authTag = <<"tag", key, iv, data[4]>>
    THEN [ok |-> TRUE, text |-> data[4]] ELSE CryptoError

\* gateway lib/crypto.ts getMasterKeyBuffer: 64 characters are read as hex,
\* 32 or more as utf8 (the first 32), fewer are refused
getMasterKeyBuffer(secret) ==
  IF Len(secret) = 64 THEN <<"hex", secret>>
  ELSE IF Len(secret) >= 32 THEN <<"utf8", SubSeq(secret, 1, 32)>>
  ELSE NoKey

\* scheduler.ts: crypto.createHash('sha256').update(config.platformMasterKey).digest()
SchedulerKey(secret) == Sha256(secret)

NoCipher == [data |-> Null, iv |-> "", authTag |-> Null]

\* JSON.parse of a decrypted text
JsonParse(text) == <<"json", text>>

\* scheduler.ts decryptJobData
decryptJobData(cipher, secret) ==
  IF cipher.data = Null \/ cipher.iv = "" \/ cipher.authTag = Null \/ secret = "" THEN Null
  ELSE LET decrypted == Open(SchedulerKey(secret), cipher.data, cipher.iv, cipher.authTag)
       IN  IF ~decrypted.ok THEN Null ELSE JsonParse(decrypted.text)

\* cron_jobs rows as loadEnabledJobs may read them: without headers and
\* body, or with both sealed under the key the scheduler derives, or sealed
\* under the key of the gateway's lib/crypto.ts
PlatformJobRows == { [headers |-> NoCipher, body |-> NoCipher] }

JobRowInputs ==
  { [headers |-> NoCipher, body |-> NoCipher],
    [headers |-> Seal(SchedulerKey(DefaultSecret), "{Authorization}", "iv1"),
     body |-> Seal(SchedulerKey(DefaultSecret), "{payload}", "iv2")],
    [headers |-> Seal(getMasterKeyBuffer(DefaultSecret), "{Authorization}", "iv1"),
     body |-> Seal(getMasterKeyBuffer(DefaultSecret), "{payload}", "iv2")] }

\* loadEnabledJobs: the CronJob object made from one row
loadEnabledJob(row, secret) ==
  [httpHeaders |-> decryptJobData(row.headers, secret),
   httpBody |-> decryptJobData(row.body, secret)]

(***************************************************************************)
(* Project credentials: the gateway seals the connection strings at        *)
(* provisioning (lib/crypto.ts encrypt) and opens them in getCredentials   *)
(* (decrypt); the scheduler opens them in decryptCredentials.  vault.out   *)
(* holds, for every stored credential, what each service last got.         *)
(***************************************************************************)
MaxCredentials == 2

NotRun == [ok |-> FALSE, text |-> "not run"]

\* PLATFORM_MASTER_KEY values: 64 hex characters, 32 characters, more than
\* 32, fewer than 32, and unset
Secrets ==
  { "00112233445566778899aabbccddeeff00112233445566778899aabbccddeeff",
    DefaultSecret,
    "0123456789abcdef0123456789abcdef01234567",
    "0123456789abcdef",
    "" }

CredentialTexts == {"postgresql://p1_owner:pw@localhost:5432/p1", "postgresql://p1_app:pw@localhost:5432/p1"}

Ivs == {"iv1", "iv2"}

\* gateway lib/crypto.ts decrypt
decrypt(cipher, secret) == Open(getMasterKeyBuffer(secret), cipher.data, cipher.iv, cipher.authTag)

\* scheduler.ts decryptCredentials
decryptCredentials(cipher, secret) ==
  IF secret = "" THEN CryptoError
  ELSE Open(SchedulerKey(secret), cipher.data, cipher.iv, cipher.authTag)

\* createProject: encrypt(ownerConnStr) / encrypt(appConnStr) with a random
\* iv; getMasterKeyBuffer throws on a secret it refuses and nothing is stored
GatewayEncrypt ==
  /\ Len(vault.stored) < MaxCredentials
  /\ \E plaintext \in CredentialTexts, iv \in Ivs :
       LET key == getMasterKeyBuffer(vault.secret)
       IN  IF key = NoKey THEN UNCHANGED vault
           ELSE vault' = [vault EXCEPT !.stored = Append(@, Seal(key, plaintext, iv)),
                                       !.out = Append(@, [gateway |-> NotRun, scheduler |-> NotRun])]
  /\ UNCHANGED <<api_keys, apiVars, keyVars, provVars, schedVars, backupVars, tenantDdl,
                 settings, whereCall, loadedJobs, ownerConns, poolLog, cleanup>>

\* getCredentials of the gateway decrypts a stored credential
GatewayDecrypt ==
  /\ \E i \in 1..Len(vault.stored) :
       vault' = [vault EXCEPT !.out[i].gateway = decrypt(vault.stored[i], vault.secret)]
  /\ UNCHANGED <<api_keys, apiVars, keyVars, provVars, schedVars, backupVars, tenantDdl,
                 settings, whereCall, loadedJobs, ownerConns, poolLog, cleanup>>

\* backup_project / vacuum_database of the scheduler decrypt a stored credential
SchedulerDecrypt ==
  /\ \E i \in 1..Len(vault.stored) :
       vault' = [vault EXCEPT !.out[i].scheduler = decryptCredentials(vault.stored[i], vault.secret)]
  /\ UNCHANGED <<api_keys, apiVars, keyVars, provVars, schedVars, backupVars, tenantDdl,
                 settings, whereCall, loadedJobs, ownerConns, poolLog, cleanup>>

\* scheduleJob: the existing Cron of the job is stopped; new Cron(...) either
\* replaces it in the map or throws on the schedule expression, which
\* leaves the stopped Cron in the map
scheduleJob(cron, valid) ==
  IF valid THEN "live" ELSE IF cron = "none" THEN "none" ELSE "stopped"

\* syncJobs: loadEnabledJobs returns the enabled jobs or throws; the Crons
\* of jobs no longer enabled are stopped and deleted, and scheduleJob runs
\* for every enabled job
SyncJobs(rowInputs) ==
  /\ \/ UNCHANGED <<activeCrons, loadedJobs>>
     \/ \E enabled \in SUBSET Jobs :
          \E valid \in SUBSET enabled : \E rows \in [valid -> rowInputs] :
            /\ activeCrons' = [j \in Jobs |-> IF j \notin enabled THEN "none"
                                              ELSE scheduleJob(activeCrons[j], j \in valid)]
            /\ loadedJobs' = [j \in Jobs |->
                  IF j \notin enabled THEN NoJob
                  ELSE IF j \in valid THEN loadEnabledJob(rows[j], vault.secret)
                  ELSE loadedJobs[j]]
  /\ UNCHANGED <<api_keys, apiVars, keyVars, provVars, backupVars, runningJobs, dispatches,
                 cron_job_runs, dbClock, tenantDdl, settings, whereCall, vault, ownerConns,
                 poolLog, cleanup>>

\* won, afterWin and unslept record the history of the attempts: an
\* attempt's job returned success; an attempt began after such an attempt;
\* an attempt began after a failed one without the retry sleep
IdleDispatch ==
  [job |-> "", seen |-> 0, pc |-> "skipped", attempt |-> 0, runId |-> 0, success |-> FALSE,
   won |-> FALSE, afterWin |-> FALSE, unslept |-> FALSE]

\* the live Cron of a job fires: the callback calls executeJobWithRetries(job), which runs
\* up to its first await
Fire(j) ==
  /\ activeCrons[j] = "live"
  /\ Len(dispatches) < MaxDispatches
  /\ LET d == [IdleDispatch EXCEPT !.job = j, !.seen = runningJobs]
     IN  IF AtCapacity(runningJobs)
           THEN /\ dispatches' = Append(dispatches, d)
                /\ UNCHANGED runningJobs
           ELSE /\ runningJobs' = runningJobs + 1
                /\ dispatches' = Append(dispatches, [d EXCEPT !.pc = "create", !.attempt = 1])
  /\ UNCHANGED <<api_keys, apiVars, keyVars, provVars, adminVars, backupVars, activeCrons, cron_job_runs, dbClock>>

\* the loop head: the next attempt, or the code after the loop
NextAttempt(d) ==
  IF d.attempt + 1 <= Attempts(JobConfig[d.job])
    THEN [d EXCEPT !.pc = "create", !.attempt = @ + 1,
                   !.afterWin = @ \/ d.won, !.unslept = @ \/ d.pc # "sleep"]
    ELSE [d EXCEPT !.pc = "timestamps"]

\* an awaited call outside every try block rejects: executeJobWithRetries
\* rejects and the Cron callback logs the error
Rejects(d) ==
  dispatches' = [dispatches EXCEPT ![d] = [IdleDispatch EXCEPT !.job = dispatches[d].job, !.pc = "rejected"]]

\* const runId = await createJobRun(job.id, attempt)
CreateJobRun(d) ==
  /\ dispatches[d].pc = "create"
  /\ Len(cron_job_runs) < MaxRuns
  /\ \E ok \in BOOLEAN :
       IF ok
         THEN /\ dbClock' = dbClock + 1
              /\ cron_job_runs' = Append(cron_job_runs,
                   [id |-> Len(cron_job_runs) + 1, jobId |-> dispatches[d].job,
                    attemptNumber |-> dispatches[d].attempt, startedAt |-> dbClock + 1,
                    status |-> "running", dispatch |-> d])
              /\ dispatches' = [dispatches EXCEPT ![d].pc = "execute",
                                                  ![d].runId = Len(cron_job_runs) + 1]
         ELSE Rejects(d) /\ UNCHANGED <<cron_job_runs, dbClock>>
  /\ UNCHANGED <<api_keys, apiVars, keyVars, provVars, adminVars, backupVars, runningJobs, activeCrons>>

\* result = await executeHttpJob(job) / executePlatformJob(job)
ExecuteJob(d) ==
  /\ dispatches[d].pc = "execute"
  /\ \E outcome \in {"success", "fail", "throw"} :
       dispatches' = [dispatches EXCEPT ![d] =
         CASE outcome = "success" -> [@ EXCEPT !.pc = "update", !.success = TRUE, !.won = TRUE]
           [] outcome = "fail" -> [@ EXCEPT !.pc = "update"]
           [] OTHER -> [@ EXCEPT !.pc = "catch"]]
  /\ UNCHANGED <<api_keys, apiVars, keyVars, provVars, adminVars, backupVars, runningJobs, activeCrons,
                 cron_job_runs, dbClock>>

SetStatus(runs, runId, status) == [runs EXCEPT ![runId].status = status]

\* await updateJobRun(runId, result.success ? 'success' : 'fail', ...) in
\* the try block, then break, sleep or the next attempt
UpdateJobRun(d) ==
  /\ dispatches[d].pc = "update"
  /\ \E ok \in BOOLEAN :
       LET dis == dispatches[d]
           job == JobConfig[dis.job]
       IN  IF ~ok
             THEN /\ dispatches' = [dispatches EXCEPT ![d] =
                        [dis EXCEPT !.pc = "catch", !.success = FALSE]]
                  /\ UNCHANGED cron_job_runs
           ELSE IF dis.success
             THEN /\ cron_job_runs' = SetStatus(cron_job_runs, dis.runId, "success")
                  /\ dispatches' = [dispatches EXCEPT ![d].pc = "timestamps"]
           ELSE /\ cron_job_runs' = SetStatus(cron_job_runs, dis.runId, "fail")
                /\ dispatches' = [dispatches EXCEPT ![d] =
                     IF dis.attempt < job.retries + 1 /\ job.retryBackoffMs > 0
                       THEN [dis EXCEPT !.pc = "sleep"] ELSE NextAttempt(dis)]
  /\ UNCHANGED <<api_keys, apiVars, keyVars, provVars, adminVars, backupVars, runningJobs, activeCrons, dbClock>>

\* await new Promise((resolve) => setTimeout(resolve, job.retryBackoffMs))
RetrySleep(d) ==
  /\ dispatches[d].pc = "sleep"
  /\ dispatches' = [dispatches EXCEPT ![d] = NextAttempt(@)]
  /\ UNCHANGED <<api_keys, apiVars, keyVars, provVars, adminVars, backupVars, runningJobs, activeCrons,
                 cron_job_runs, dbClock>>

\* catch (err) { await updateJobRun(runId, 'fail', null, lastError, null) }
CatchUpdateJobRun(d) ==
  /\ dispatches[d].pc = "catch"
  /\ \E ok \in BOOLEAN :
       IF ok
         THEN /\ cron_job_runs' = SetStatus(cron_job_runs, dispatches[d].runId, "fail")
              /\ dispatches' = [dispatches EXCEPT ![d] = NextAttempt(@)]
         ELSE Rejects(d) /\ UNCHANGED cron_job_runs
  /\ UNCHANGED <<api_keys, apiVars, keyVars, provVars, adminVars, backupVars, runningJobs, activeCrons, dbClock>>

\* await updateJobTimestamps(job.id, nextRun)
UpdateJobTimestamps(d) ==
  /\ dispatches[d].pc = "timestamps"
  /\ \E ok \in BOOLEAN :
       IF ok THEN dispatches' = [dispatches EXCEPT ![d].pc = "notify"] ELSE Rejects(d)
  /\ UNCHANGED <<api_keys, apiVars, keyVars, provVars, adminVars, backupVars, runningJobs, activeCrons,
                 cron_job_runs, dbClock>>

\* the failure notification (which catches its own errors), runningJobs--
DispatchReturns(d) ==
  /\ dispatches[d].pc = "notify"
  /\ runningJobs' = runningJobs - 1
  /\ dispatches' = [dispatches EXCEPT ![d] = [IdleDispatch EXCEPT !.job = dispatches[d].job, !.pc = "returned"]]
  /\ UNCHANGED <<api_keys, apiVars, keyVars, provVars, adminVars, backupVars, activeCrons, cron_job_runs, dbClock>>

(***************************************************************************)
(* Backups: gateway services/backup.ts (createBackup, runBackup) and the   *)
(* scheduler's backupProjectDatabase                                       *)
(***************************************************************************)
MaxBackups == 1

MaxBackupTasks == 2

\* bodies of POST /admin/backups that pass createBackupSchema
BackupInputs ==
  { [backupType |-> "project", projectId |-> "p1"],
    [backupType |-> "project", projectId |-> ""],
    [backupType |-> "platform", projectId |-> ""] }

BackupRow(id, projectId, backupType, status, createdAt, createdBy) ==
  [id |-> id, project_id |-> projectId, backup_type |-> backupType, status |-> status,
   created_at |-> createdAt, created_by |-> createdBy]

IdleBackupTask ==
  [kind |-> "", pc |-> "", backupId |-> 0, backupType |-> "", projectId |-> "",
   step |-> 0, returned |-> "", httpStatus |-> 0]

\* the awaited calls of the try block of runBackup, by backup type, and of
\* the try block of backupProjectDatabase; the last one is the UPDATE that
\* marks the row completed
TrySteps(task) ==
  IF task.kind = "backupProjectDatabase"
    THEN <<"ensureBackupBucket", "runPgDump", "PutObject", "completed">>
  ELSE IF task.backupType = "project"
    THEN <<"project_db_creds", "runPgDump", "getBackup", "PutObject", "completed">>
  ELSE <<"runPgDump", "getBackup", "PutObject", "completed">>

\* UPDATE backups SET status = $status WHERE id = $1
SetBackupStatus(rows, id, status) ==
  [i \in 1..Len(rows) |-> IF rows[i].id = id THEN [rows[i] EXCEPT !.status = status] ELSE rows[i]]

\* SELECT ... FROM backups WHERE id = $1
getBackup(rows, id) ==
  LET hits == {i \in 1..Len(rows) : rows[i].id = id}
  IN  IF hits = {} THEN <<>> ELSE << rows[CHOOSE i \in hits : TRUE] >>

\* a settled task keeps its kind, its row id and its outcome only
SetTask(t, task) ==
  backupTasks' = [backupTasks EXCEPT ![t] =
    IF task.pc \in {"failed", "rejected", "resolved", "returned"}
      THEN [IdleBackupTask EXCEPT !.kind = task.kind, !.pc = task.pc, !.backupId = task.backupId,
                                  !.returned = task.returned, !.httpStatus = task.httpStatus]
      ELSE task]

\* POST /admin/backups: the checks of the route, then createBackup up to
\* its first await (ensureBackupBucket)
CreateBackup ==
  /\ Len(backupTasks) < MaxBackupTasks
  /\ \E input \in BackupInputs :
       LET task == [IdleBackupTask EXCEPT !.kind = "createBackup",
                                          !.backupType = input.backupType,
                                          !.projectId = input.projectId]
       IN  backupTasks' = Append(backupTasks,
             IF input.backupType = "project" /\ input.projectId = ""
               THEN [task EXCEPT !.pc = "failed", !.httpStatus = 400]
               ELSE [task EXCEPT !.pc = "ensureBackupBucket"])
  /\ UNCHANGED <<api_keys, apiVars, keyVars, provVars, schedVars, adminVars, backups, retention>>

\* await ensureBackupBucket()
CreateEnsureBucket(t) ==
  /\ backupTasks[t].kind = "createBackup" /\ backupTasks[t].pc = "ensureBackupBucket"
  /\ \E ok \in BOOLEAN :
       SetTask(t, IF ok THEN [backupTasks[t] EXCEPT !.pc = "insert"]
                  ELSE [backupTasks[t] EXCEPT !.pc = "failed", !.httpStatus = 500])
  /\ UNCHANGED <<api_keys, apiVars, keyVars, provVars, schedVars, adminVars, backups, retention>>

\* the INSERT of the pending row returns; this.runBackup(backupId, input)
\* is called without await and runs up to its first await, then
\* createBackup awaits auditService.log
CreateInsert(t) ==
  /\ backupTasks[t].kind = "createBackup" /\ backupTasks[t].pc = "insert"
  /\ Len(backups) < MaxBackups
  /\ \E ok \in BOOLEAN :
       LET task == backupTasks[t]
           id == Len(backups) + 1
       IN  IF ok
             THEN /\ backups' = Append(backups,
                       BackupRow(id, task.projectId, task.backupType, "pending", now, "admin"))
                  /\ backupTasks' = Append(
                       [backupTasks EXCEPT ![t] = [task EXCEPT !.pc = "audit", !.backupId = id]],
                       [task EXCEPT !.kind = "runBackup", !.pc = "markRunning", !.backupId = id])
             ELSE /\ SetTask(t, [task EXCEPT !.pc = "failed", !.httpStatus = 500])
                  /\ UNCHANGED backups
  /\ UNCHANGED <<api_keys, apiVars, keyVars, provVars, schedVars, adminVars, retention>>

\* await auditService.log(...): it catches its own errors
CreateAudit(t) ==
  /\ backupTasks[t].kind = "createBackup" /\ backupTasks[t].pc = "audit"
  /\ SetTask(t, [backupTasks[t] EXCEPT !.pc = "getBackup"])
  /\ UNCHANGED <<api_keys, apiVars, keyVars, provVars, schedVars, adminVars, backups, retention>>

\* return (await this.getBackup(backupId))!  -- the body of the 202 reply
CreateReturn(t) ==
  /\ backupTasks[t].kind = "createBackup" /\ backupTasks[t].pc = "getBackup"
  /\ \E ok \in BOOLEAN :
       LET row == getBackup(backups, backupTasks[t].backupId)
       IN  SetTask(t, IF ok /\ row # <<>>
                        THEN [backupTasks[t] EXCEPT !.pc = "returned", !.httpStatus = 202,
                                                    !.returned = row[1].status]
                        ELSE [backupTasks[t] EXCEPT !.pc = "failed", !.httpStatus = 500])
  /\ UNCHANGED <<api_keys, apiVars, keyVars, provVars, schedVars, adminVars, backups, retention>>

\* runBackup: await UPDATE backups SET status = 'running', outside the try
RunMarkRunning(t) ==
  /\ backupTasks[t].kind = "runBackup" /\ backupTasks[t].pc = "markRunning"
  /\ \E ok \in BOOLEAN :
       IF ok
         THEN /\ backups' = SetBackupStatus(backups, backupTasks[t].backupId, "running")
              /\ SetTask(t, [backupTasks[t] EXCEPT !.pc = "try", !.step = 1])
         ELSE /\ SetTask(t, [backupTasks[t] EXCEPT !.pc = "rejected"])
              /\ UNCHANGED backups
  /\ UNCHANGED <<api_keys, apiVars, keyVars, provVars, schedVars, adminVars, retention>>

\* executePlatformJob 'backup_project': backupProjectDatabase(projectId) up
\* to its first await, the credentials query
SchedBackup ==
  /\ Len(backupTasks) < MaxBackupTasks
  /\ backupTasks' = Append(backupTasks,
       [IdleBackupTask EXCEPT !.kind = "backupProjectDatabase", !.pc = "project_db_creds",
                              !.backupType = "project", !.projectId = "p1"])
  /\ UNCHANGED <<api_keys, apiVars, keyVars, provVars, schedVars, adminVars, backups, retention>>

\* the credentials query returns: no row or an error throws before any
\* backup row exists
SchedCreds(t) ==
  /\ backupTasks[t].kind = "backupProjectDatabase" /\ backupTasks[t].pc = "project_db_creds"
  /\ \E ok \in BOOLEAN :
       SetTask(t, [backupTasks[t] EXCEPT !.pc = IF ok THEN "insert" ELSE "rejected"])
  /\ UNCHANGED <<api_keys, apiVars, keyVars, provVars, schedVars, adminVars, backups, retention>>

\* INSERT INTO backups (...) VALUES ($1, 'project', $2, 'sql', 'running', 'scheduler')
SchedInsert(t) ==
  /\ backupTasks[t].kind = "backupProjectDatabase" /\ backupTasks[t].pc = "insert"
  /\ Len(backups) < MaxBackups
  /\ \E ok \in BOOLEAN :
       LET task == backupTasks[t]
           id == Len(backups) + 1
       IN  IF ok
             THEN /\ backups' = Append(backups,
                       BackupRow(id, task.projectId, "project", "running", now, "scheduler"))
                  /\ SetTask(t, [task EXCEPT !.pc = "try", !.step = 1, !.backupId = id])
             ELSE /\ SetTask(t, [task EXCEPT !.pc = "rejected"])
                  /\ UNCHANGED backups
  /\ UNCHANGED <<api_keys, apiVars, keyVars, provVars, schedVars, adminVars, retention>>

\* one awaited call of the try block settles; the last one marks the row
\* completed; an error of any of them enters the catch block
BackupTryStep(t) ==
  /\ backupTasks[t].kind \in {"runBackup", "backupProjectDatabase"}
  /\ backupTasks[t].pc = "try"
  /\ \E ok \in BOOLEAN :
       LET task == backupTasks[t]
           steps == TrySteps(task)
       IN  IF ~ok
             THEN SetTask(t, [task EXCEPT !.pc = "catch"]) /\ UNCHANGED backups
           ELSE IF task.step < Len(steps)
             THEN SetTask(t, [task EXCEPT !.step = @ + 1]) /\ UNCHANGED backups
           ELSE /\ backups' = SetBackupStatus(backups, task.backupId, "completed")
                /\ SetTask(t, [task EXCEPT !.pc = "resolved"])
  /\ UNCHANGED <<api_keys, apiVars, keyVars, provVars, schedVars, adminVars, retention>>

\* catch: await UPDATE backups SET status = 'failed', then throw error
BackupCatch(t) ==
  /\ backupTasks[t].kind \in {"runBackup", "backupProjectDatabase"}
  /\ backupTasks[t].pc = "catch"
  /\ \E ok \in BOOLEAN :
       /\ backups' = IF ok THEN SetBackupStatus(backups, backupTasks[t].backupId, "failed")
                     ELSE backups
       /\ SetTask(t, [backupTasks[t] EXCEPT !.pc = "rejected"])
  /\ UNCHANGED <<api_keys, apiVars, keyVars, provVars, schedVars, adminVars, retention>>

(***************************************************************************)
(* Backup retention: backupService.applyRetentionPolicy (gateway) and      *)
(* applyBackupRetention (scheduler)                                        *)
(***************************************************************************)
DayMs == 24 * 60 * 60 * 1000

\* WHERE backup_type = 'project' AND status = 'completed' [AND project_id = $1]
RetentionSelected(rows, projectId) ==
  SelectSeq(rows, LAMBDA b : /\ b.backup_type = "project"
                             /\ b.status = "completed"
                             /\ (projectId = "" \/ b.project_id = projectId))

\* backups.filter((b) => b.created_at < threeDaysAgo && b.created_at >= oneWeekAgo)
lastWeek(group, t) ==
  {b \in group : b.created_at < t - 3 * DayMs /\ b.created_at >= t - 7 * DayMs}

\* backups.filter((b) => b.created_at < oneWeekAgo && b.created_at >= twoWeeksAgo)
prevWeek(group, t) ==
  {b \in group : b.created_at < t - 7 * DayMs /\ b.created_at >= t - 14 * DayMs}

\* backups.filter((b) => b.created_at < twoWeeksAgo)
older(group, t) == {b \in group : b.created_at < t - 14 * DayMs}

\* tier[0] under ORDER BY created_at DESC: a newest row of the tier; rows
\* of equal created_at come in an order the database chooses
NewestOf(tier) == {b \in tier : \A c \in tier : c.created_at <= b.created_at}

\* tier.slice(1) for each possible first row
SliceOne(tier) == IF tier = {} THEN {{}} ELSE {tier \ {b} : b \in NewestOf(tier)}

\* the ids the loop over backupsByProject marks for deletion
RetentionDeletes(selected, t) ==
  LET all == {selected[i] : i \in 1..Len(selected)}
      groupOf(p) == {b \in all : b.project_id = p}
      pids == {b.project_id : b \in all}
      perProject(p) ==
        { {b.id : b \in dl \cup dp \cup older(groupOf(p), t)} :
            dl \in SliceOne(lastWeek(groupOf(p), t)), dp \in SliceOne(prevWeek(groupOf(p), t)) }
  IN  { UNION {f[p] : p \in pids} : f \in {g \in [pids -> SUBSET {b.id : b \in all}] :
                                             \A p \in pids : g[p] \in perProject(p)} }

\* the function up to the return of its SELECT, with toDelete computed
RetentionStart(by) ==
  /\ retention.pc = "idle"
  /\ \E projectId \in {"", "p1"}, ok \in BOOLEAN :
       LET selected == RetentionSelected(backups, projectId)
       IN  IF ~ok THEN retention' = [retention EXCEPT !.by = by, !.pc = "failed"]
           ELSE \E toDelete \in RetentionDeletes(selected, now) :
                  retention' = [by |-> by, pc |-> "objects", at |-> now, projectId |-> projectId,
                                before |-> selected, toDelete |-> toDelete]
  /\ UNCHANGED <<api_keys, apiVars, keyVars, provVars, schedVars, adminVars, backups, backupTasks>>

applyRetentionPolicy == RetentionStart("gateway")

applyBackupRetention == RetentionStart("scheduler")

\* the DeleteObjectCommand loop (errors ignored), then
\* DELETE FROM backups WHERE id = ANY($1) when toDelete is not empty
RetentionDelete ==
  /\ retention.pc = "objects"
  /\ \E ok \in BOOLEAN :
       IF retention.toDelete = {}
         THEN retention' = [retention EXCEPT !.pc = "applied"] /\ UNCHANGED backups
       ELSE IF ok
         THEN /\ backups' = SelectSeq(backups, LAMBDA b : b.id \notin retention.toDelete)
              /\ retention' = [retention EXCEPT !.pc = "applied"]
       ELSE retention' = [retention EXCEPT !.pc = "failed"] /\ UNCHANGED backups
  /\ UNCHANGED <<api_keys, apiVars, keyVars, provVars, schedVars, adminVars, backupTasks>>

(***************************************************************************)
(* The owner pool of a project at the level of its connections: pg Pool    *)
(* with max 3, pool.query = acquire a client, run, release.  Idle clients  *)
(* are reused last-released-first, waiters are served in arrival order.    *)
(***************************************************************************)
poolMax == 3

AdminTasks == {"a1", "a2"}

OtherTasks == {"o1", "o2"}

OwnerTasks == AdminTasks \cup OtherTasks

IdleOwnerTask == [pc |-> "idle", phase |-> "", conn |-> 0]

IdleOwnerPool ==
  [conns |-> <<>>, idle |-> <<>>, pending |-> <<>>, tasks |-> [t \in OwnerTasks |-> IdleOwnerTask]]

\* pool.query up to the moment a client is assigned: an idle client, else
\* a new one while the pool is not full, else the call waits in the queue
Acquire(pool, t, phase) ==
  IF Len(pool.idle) > 0
    THEN [pool EXCEPT !.idle = SubSeq(@, 1, Len(@) - 1),
                      !.tasks[t] = [pc |-> "run", phase |-> phase, conn |-> pool.idle[Len(pool.idle)]]]
  ELSE IF Len(pool.conns) < poolMax
    THEN [pool EXCEPT !.conns = Append(@, [timeout |-> NULL]),
                      !.tasks[t] = [pc |-> "run", phase |-> phase, conn |-> Len(pool.conns) + 1]]
  ELSE [pool EXCEPT !.pending = Append(@, t),
                    !.tasks[t] = [pc |-> "wait", phase |-> phase, conn |-> 0]]

\* client.release(): the first waiter gets the client, else it becomes idle
Release(pool, c) ==
  IF Len(pool.pending) > 0
    THEN [pool EXCEPT !.pending = Tail(@),
                      !.tasks[Head(pool.pending)].pc = "run",
                      !.tasks[Head(pool.pending)].conn = c]
    ELSE [pool EXCEPT !.idle = Append(@, c)]

\* another owner-tier query of the project starts (table introspection, a
\* table export, ...)
OtherQueryStart(p, t) ==
  /\ t \in OtherTasks
  /\ ownerConns[p].tasks[t].pc = "idle"
  /\ ownerConns' = [ownerConns EXCEPT ![p] = Acquire(@, t, "query")]
  /\ UNCHANGED <<api_keys, apiVars, keyVars, provVars, schedVars, backupVars, tenantDdl,
                 settings, whereCall, loadedJobs, vault, poolLog, cleanup>>

\* executeAdminQuery after validateSql: queryAsOwner(projectId, timeoutSql)
AdminQueryStart(p, t) ==
  /\ t \in AdminTasks
  /\ ownerConns[p].tasks[t].pc = "idle"
  /\ ownerConns' = [ownerConns EXCEPT ![p] = Acquire(@, t, "set")]
  /\ UNCHANGED <<api_keys, apiVars, keyVars, provVars, schedVars, backupVars, tenantDdl,
                 settings, whereCall, loadedJobs, vault, poolLog, cleanup>>

\* the statement a task runs on its client completes and the client is
\* released.  After a successful SET the executor issues the admin's
\* statement at once; after the statement, or a failure, the call is over.
OwnerQueryReturn(p, t) ==
  /\ ownerConns[p].tasks[t].pc = "run"
  /\ \E ok \in BOOLEAN :
       LET pool == ownerConns[p]
           task == pool.tasks[t]
           c == task.conn
           ran == IF task.phase = "set" /\ ok
                    THEN [pool EXCEPT !.conns[c].timeout = statementTimeoutMs] ELSE pool
           released == Release([ran EXCEPT !.tasks[t] = [pc |-> "done", phase |-> task.phase,
                                                          conn |-> 0]], c)
       IN  ownerConns' = [ownerConns EXCEPT ![p] =
             IF task.phase = "set" /\ ok THEN Acquire(released, t, "stmt") ELSE released]
  /\ UNCHANGED <<api_keys, apiVars, keyVars, provVars, schedVars, backupVars, tenantDdl,
                 settings, whereCall, loadedJobs, vault, poolLog, cleanup>>

\* the caller has its answer; the task may start again
OwnerTaskDone(p, t) ==
  /\ ownerConns[p].tasks[t].pc = "done"
  /\ ownerConns' = [ownerConns EXCEPT ![p].tasks[t] = IdleOwnerTask]
  /\ UNCHANGED <<api_keys, apiVars, keyVars, provVars, schedVars, backupVars, tenantDdl,
                 settings, whereCall, loadedJobs, vault, poolLog, cleanup>>

(***************************************************************************)
(* db/project.ts with the pools as objects: every Pool that getProjectPools*)
(* constructs gets an entry in poolLog.pairs, poolLog.stored is the        *)
(* projectPools map (0: no entry); a lookup task keeps the pool its query  *)
(* was handed to and whether that pool had been ended.                     *)
(***************************************************************************)
MaxPoolPairs == 3

LookupTasks == {"l1", "l2"}

CloseTasks == {"c1"}

PoolTasks == LookupTasks \cup CloseTasks

IdlePoolTask == [pc |-> "idle", tier |-> "", pair |-> 0, ended |-> FALSE]

IdlePoolLog ==
  [stored |-> [p \in Projects |-> 0], pairs |-> <<>>,
   tasks |-> [t \in PoolTasks |-> IdlePoolTask]]

\* pools.owner.query / pools.app.query on the pair the lookup returned
PoolQuery(log, t, tier, pair) ==
  [log EXCEPT !.tasks[t] = [pc |-> "done", tier |-> tier, pair |-> pair,
                            ended |-> log.pairs[pair][tier] = "ended"]]

\* queryAsOwner / queryAsApp: getProjectPools returns the stored pair, or
\* goes on to await getCredentials
LookupStart(p, t) ==
  /\ t \in LookupTasks
  /\ poolLog.tasks[t].pc = "idle"
  /\ \E tier \in {"owner", "app"} :
       poolLog' = IF poolLog.stored[p] # 0
                    THEN PoolQuery(poolLog, t, tier, poolLog.stored[p])
                    ELSE [poolLog EXCEPT !.tasks[t] = [IdlePoolTask EXCEPT !.pc = "creds", !.tier = tier]]
  /\ UNCHANGED <<api_keys, apiVars, keyVars, provVars, schedVars, backupVars, tenantDdl,
                 settings, whereCall, loadedJobs, vault, ownerConns, cleanup>>

\* getCredentials has answered: new Pool (owner), new Pool (app),
\* projectPools.set(projectId, pools), and the query on the new pool
LookupCredsLoaded(p, t) ==
  /\ poolLog.tasks[t].pc = "creds"
  /\ \E ok \in BOOLEAN :
       IF ok
         THEN /\ Len(poolLog.pairs) < MaxPoolPairs
              /\ LET pair == Len(poolLog.pairs) + 1
                     opened == [poolLog EXCEPT
                                  !.pairs = Append(@, [project |-> p, owner |-> "open", app |-> "open"]),
                                  !.stored[p] = pair]
                 IN  poolLog' = PoolQuery(opened, t, poolLog.tasks[t].tier, pair)
         ELSE poolLog' = [poolLog EXCEPT !.tasks[t].pc = "done"]
  /\ UNCHANGED <<api_keys, apiVars, keyVars, provVars, schedVars, backupVars, tenantDdl,
                 settings, whereCall, loadedJobs, vault, ownerConns, cleanup>>

\* closeProjectPools: projectPools.get(projectId), then pools.owner.end()
CloseStart(p, t) ==
  /\ t \in CloseTasks
  /\ poolLog.tasks[t].pc = "idle"
  /\ poolLog' = IF poolLog.stored[p] = 0
                  THEN [poolLog EXCEPT !.tasks[t].pc = "done"]
                  ELSE [poolLog EXCEPT !.pairs[poolLog.stored[p]].owner = "ended",
                                       !.tasks[t] = [IdlePoolTask EXCEPT !.pc = "ownerEnd",
                                                       !.pair = poolLog.stored[p]]]
  /\ UNCHANGED <<api_keys, apiVars, keyVars, provVars, schedVars, backupVars, tenantDdl,
                 settings, whereCall, loadedJobs, vault, ownerConns, cleanup>>

\* await pools.owner.end() settles; pools.app.end()
CloseOwnerEnded(p, t) ==
  /\ poolLog.tasks[t].pc = "ownerEnd"
  /\ \E ok \in BOOLEAN :
       poolLog' = IF ok
                    THEN [poolLog EXCEPT !.pairs[poolLog.tasks[t].pair].app = "ended",
                                         !.tasks[t].pc = "appEnd"]
                    ELSE [poolLog EXCEPT !.tasks[t].pc = "done"]
  /\ UNCHANGED <<api_keys, apiVars, keyVars, provVars, schedVars, backupVars, tenantDdl,
                 settings, whereCall, loadedJobs, vault, ownerConns, cleanup>>

\* await pools.app.end() settles; projectPools.delete(projectId)
CloseAppEnded(p, t) ==
  /\ poolLog.tasks[t].pc = "appEnd"
  /\ \E ok \in BOOLEAN :
       poolLog' = IF ok
                    THEN [poolLog EXCEPT !.stored[p] = 0, !.tasks[t].pc = "done"]
                    ELSE [poolLog EXCEPT !.tasks[t].pc = "done"]
  /\ UNCHANGED <<api_keys, apiVars, keyVars, provVars, schedVars, backupVars, tenantDdl,
                 settings, whereCall, loadedJobs, vault, ownerConns, cleanup>>

\* the caller has its answer; the task may start again
PoolTaskDone(t) ==
  /\ poolLog.tasks[t].pc = "done"
  /\ poolLog' = [poolLog EXCEPT !.tasks[t] = IdlePoolTask]
  /\ UNCHANGED <<api_keys, apiVars, keyVars, provVars, schedVars, backupVars, tenantDdl,
                 settings, whereCall, loadedJobs, vault, ownerConns, cleanup>>

(***************************************************************************)
(* backupService.cleanupExpiredBackups (and the scheduler's                *)
(* cleanup_expired_backups, which runs the same three steps): SELECT the   *)
(* expired rows, delete their objects, DELETE the expired rows.  NOW() is  *)
(* the platform database's clock at the statement.                         *)
(***************************************************************************)
MaxCleanupRows == 3

ExpiringRow(id, expiresAt) ==
  [id |-> id, project_id |-> "p1", backup_type |-> "project", status |-> "completed",
   created_at |-> 0, created_by |-> "admin", object_key |-> id, expires_at |-> expiresAt]

\* WHERE expires_at IS NOT NULL AND expires_at < NOW()
IsExpired(row, t) == row.expires_at # NULL /\ row.expires_at < t

ExpiredIds(rows, t) == {rows[i].id : i \in {k \in 1..Len(rows) : IsExpired(rows[k], t)}}

\* SELECT id, object_key FROM backups WHERE ... expires_at < NOW()
CleanupSelect ==
  /\ cleanup.pc = "idle"
  /\ \E ok \in BOOLEAN :
       cleanup' = IF ok
                    THEN [IdleCleanup EXCEPT !.pc = "objects",
                                             !.expired = SelectSeq(backups, LAMBDA b : IsExpired(b, now))]
                    ELSE [IdleCleanup EXCEPT !.pc = "failed"]
  /\ UNCHANGED <<api_keys, apiVars, keyVars, provVars, schedVars, backupVars, tenantDdl,
                 settings, whereCall, loadedJobs, vault, ownerConns, poolLog>>

\* one turn of the for loop: DeleteObjectCommand for the next selected row,
\* its error ignored
CleanupDeleteObject ==
  /\ cleanup.pc = "objects"
  /\ Cardinality(cleanup.attempted) < Len(cleanup.expired)
  /\ LET row == cleanup.expired[Cardinality(cleanup.attempted) + 1]
     IN  /\ cleanup' = [cleanup EXCEPT !.attempted = @ \cup {row.id}]
         /\ \E ok \in BOOLEAN :
              storeLog' = IF ok THEN storeLog \cup {[req |-> "cleanup", op |-> "DeleteObject",
                                                     bucket |-> row.object_key]}
                                ELSE storeLog
  /\ UNCHANGED <<api_keys, projectPools, tableInfoCache, now, req, tenantLog, keyVars, provVars,
                 schedVars, backupVars, tenantDdl, settings, whereCall, loadedJobs, vault,
                 ownerConns, poolLog>>

\* DELETE FROM backups WHERE ... expires_at < NOW(); return result.rows.length
CleanupDelete ==
  /\ cleanup.pc = "objects"
  /\ Cardinality(cleanup.attempted) = Len(cleanup.expired)
  /\ \E ok \in BOOLEAN :
       IF ok
         THEN /\ backups' = SelectSeq(backups, LAMBDA b : ~IsExpired(b, now))
              /\ cleanup' = [cleanup EXCEPT !.pc = "returned",
                                            !.deleted = ExpiredIds(backups, now),
                                            !.count = Len(cleanup.expired)]
         ELSE cleanup' = [cleanup EXCEPT !.pc = "failed"] /\ UNCHANGED backups
  /\ UNCHANGED <<api_keys, apiVars, keyVars, provVars, schedVars, backupTasks, retention,
                 tenantDdl, settings, whereCall, loadedJobs, vault, ownerConns, poolLog>>

\* the caller has the count (or the error)
CleanupDone ==
  /\ cleanup.pc \in {"returned", "failed"}
  /\ cleanup' = IdleCleanup
  /\ UNCHANGED <<api_keys, apiVars, keyVars, provVars, schedVars, backupVars, tenantDdl,
                 settings, whereCall, loadedJobs, vault, ownerConns, poolLog>>

\* createBackup inserts a row: expires_at is NULL, or the retention period
\* (one tick of the clock) after the insert
CleanupInsert ==
  /\ \A i \in 1..Len(backups) : backups[i].id < MaxCleanupRows
  /\ \E expiresAt \in {NULL, now + TickMs} :
       backups' = Append(backups,
         ExpiringRow(MaxOf({0} \cup {backups[i].id : i \in 1..Len(backups)}) + 1, expiresAt))
  /\ UNCHANGED <<api_keys, apiVars, keyVars, provVars, schedVars, backupTasks, retention,
                 adminVars>>

(***************************************************************************)
(* Idle values of the parts a specification leaves alone                   *)
(***************************************************************************)
ApiIdle ==
  /\ projectPools = [p \in Projects |-> NoPools]
  /\ tableInfoCache = [p \in Projects |-> NoCache]
  /\ now = 0
  /\ req = [r \in Requests |-> IdleReq]
  /\ tenantLog = {}
  /\ storeLog = {}

KeyIdle == keyOp = [c \in Callers |-> IdleKeyOp]

AuxIdle ==
  /\ loadedJobs = [j \in Jobs |-> NoJob]
  /\ vault = IdleVault
  /\ ownerConns = [p \in Projects |-> IdleOwnerPool]
  /\ poolLog = IdlePoolLog
  /\ cleanup = IdleCleanup

\* runtimeSettings.init in buildApp, and no admin statement executed yet
AdminIdle ==
  /\ tenantDdl = [p \in Projects |-> <<>>]
  /\ settings = [sqlMaxRows |-> maxRowsPerQuery, sqlStatementTimeoutMs |-> statementTimeoutMs]
  /\ whereCall = IdleWhereCall
  /\ AuxIdle

BackupIdle == backups = <<>> /\ backupTasks = <<>> /\ retention = IdleRetention

ProvIdle == prov = IdleProv /\ infra = {} /\ platformRows = {}

SchedIdle ==
  /\ runningJobs = 0
  /\ activeCrons = [j \in Jobs |-> "none"]
  /\ dispatches = <<>>
  /\ cron_job_runs = <<>>
  /\ dbClock = 0

(***************************************************************************)
(* The public API, one request at a time, over the full input catalogue    *)
(***************************************************************************)
InitApi ==
  api_keys = SeedKeys /\ ApiIdle /\ KeyIdle /\ ProvIdle /\ SchedIdle /\ AdminIdle /\ BackupIdle

NextCrud ==
  \/ PublicAuth("r1", ApiKeyHeaders)
  \/ DbTables("r1")
  \/ DbSelect("r1", TableParams, QueryStrings)
  \/ DbInsert("r1", TableParams, InsertBodies)
  \/ DbUpdate("r1", TableParams, QueryStrings, UpdateBodies)
  \/ DbDelete("r1", TableParams, QueryStrings)
  \/ StorageList("r1")
  \/ CredsLoaded("r1")
  \/ QueryReturn("r1")
  \/ Finish("r1")
  \/ Tick

SpecCrud == InitApi /\ [][NextCrud]_vars

(***************************************************************************)
(* The admin SQL executor, one request at a time                           *)
(***************************************************************************)
NextSql ==
  \/ AdminSql("r1", SqlInputs)
  \/ CredsLoaded("r1")
  \/ QueryReturn("r1")
  \/ Finish("r1")

SpecSql == InitApi /\ [][NextSql]_vars

(***************************************************************************)
(* The tenant router under concurrent requests of both projects: public    *)
(* requests with any key next to admin statements on the owner tier        *)
(***************************************************************************)
RouterQueries == { << <<"eq.id", "1">> >> }
RouterInserts == { [NoBody EXCEPT !.wellTyped = TRUE, !.rows = << << <<"id", "7">> >> >>] }
RouterUpdates == { [NoBody EXCEPT !.wellTyped = TRUE, !.values = << <<"id", "9">> >>] }
RouterSqls == { "SELECT 1" }

NextRouter ==
  \/ \E r \in Requests : PublicAuth(r, ApiKeyHeaders)
  \/ \E r \in Requests : DbTables(r)
  \/ \E r \in Requests : DbSelect(r, {"users"}, RouterQueries)
  \/ \E r \in Requests : DbInsert(r, {"users"}, RouterInserts)
  \/ \E r \in Requests : DbUpdate(r, {"users"}, RouterQueries, RouterUpdates)
  \/ \E r \in Requests : DbDelete(r, {"users"}, RouterQueries)
  \/ \E r \in Requests : AdminSql(r, RouterSqls)
  \/ \E r \in Requests : CredsLoaded(r)
  \/ \E r \in Requests : QueryReturn(r)
  \/ \E r \in Requests : Finish(r)

SpecRouter == InitApi /\ [][NextRouter]_vars

(***************************************************************************)
(* Properties of the public API and of the admin SQL executor              *)
(***************************************************************************)
Contains(s, sub) == \E i \in 1..(Len(s) - Len(sub) + 1) : SubSeq(s, i, i + Len(sub) - 1) = sub

Sent(r) == {e \in tenantLog : e.req = r}

Listed(r) == {e \in storeLog : e.req = r}

\* a PATCH or DELETE that reached its route handler with zero parsed filters
Unscoped(r) ==
  /\ req[r].route \in {"update", "delete"}
  /\ Len(parseFilters(req[r].query)) = 0

\* the route's checks that precede the filter check pass
WellFormedMutation(r) ==
  /\ tableNameSchema(req[r].table)
  /\ req[r].route = "update" => updateBodySchema(req[r].body)

ScopedStatements ==
  \A e \in tenantLog : e.stmt.kind \in {"UPDATE", "DELETE"} => Len(e.stmt.where) > 0

\* C1 as stated: every PATCH or DELETE with zero parsed filters is answered
\* 400 with a message containing 'filter' and sends no statement, and every
\* UPDATE or DELETE statement sent to a tenant database has a WHERE clause
C1_UnscopedRefusedWithFilterMessage ==
  /\ \A r \in Requests :
       Unscoped(r) =>
         /\ req[r].pc = "done"
         /\ req[r].resp.status = 400
         /\ Contains(req[r].resp.message, "filter")
         /\ Sent(r) = {}
  /\ ScopedStatements

\* C1 amended: every PATCH or DELETE with zero parsed filters is answered 400
\* and sends no statement, not even the schema lookup; the message contains
\* 'filter' when the table name (and for PATCH the body) is valid, and every
\* UPDATE or DELETE statement sent to a tenant database has a WHERE clause
C1_UnscopedRefused ==
  /\ \A r \in Requests :
       Unscoped(r) =>
         /\ req[r].pc = "done"
         /\ req[r].resp.status = 400
         /\ WellFormedMutation(r) => Contains(req[r].resp.message, "filter")
         /\ Sent(r) = {}
  /\ ScopedStatements

C1_Witness ==
  \E r \in Requests :
    /\ Unscoped(r) /\ WellFormedMutation(r) /\ req[r].route = "update"
    /\ req[r].pc = "done" /\ req[r].resp.status = 400

PublicRoutes == {"tables", "select", "insert", "update", "delete"}

\* C2: every statement sent for a public API request that carries a key of
\* project P is sent on the app-tier pool of P's database, in every
\* interleaving of requests of both projects
C2_AppPoolOfOwnProject ==
  \A e \in tenantLog :
    req[e.req].route \in PublicRoutes =>
      e.pool = ConnStr(KeyOwner(req[e.req].apiKey, api_keys), "app")

\* two public requests with keys of different projects have statements in
\* flight at once, next to pools of both tiers being open
C2_Witness ==
  /\ req["r1"].route \in PublicRoutes /\ req["r2"].route \in PublicRoutes
  /\ req["r1"].pc = "query" /\ req["r2"].pc = "query"
  /\ KeyOwner(req["r1"].apiKey, api_keys) = "p1"
  /\ KeyOwner(req["r2"].apiKey, api_keys) = "p2"
  /\ Sent("r1") # {} /\ Sent("r2") # {}

\* one input of the catalogue for each pattern the denylist names
ListedDenials ==
  { "COPY t TO PROGRAM 'sh'", "DO $$ BEGIN END $$", "SELECT pg_sleep (9)",
    "create\nextension x", "drop  database x", "DROP ROLE r;", "ALTER SYSTEM SET a = 1" }

Refusable(sql) == StatementCount(sql) > 1 \/ MatchesDenylist(sql) \/ sql \in ListedDenials

C5_SecretKeyRequired ==
  \A r \in Requests :
    (req[r].ctx.keyType = "publishable" /\ req[r].route \in {"insert", "update", "delete", "list"}) =>
      /\ req[r].pc = "done"
      /\ req[r].resp.status = 403
      /\ Sent(r) = {}
      /\ Listed(r) = {}

(***************************************************************************)
(* The API-key service, one call at a time                                 *)
(***************************************************************************)
InitKeys ==
  /\ api_keys = KeysSeed
  /\ ApiIdle /\ KeyIdle /\ ProvIdle /\ SchedIdle /\ AdminIdle /\ BackupIdle

NextKeys ==
  \/ RotateKey("k1")
  \/ TxBegin("k1")
  \/ RotateRevokeOld("k1")
  \/ RotateInsertNew("k1")
  \/ TxCommit("k1")
  \/ RotateSelectNew("k1")
  \/ RevokeKey("k1")
  \/ KeyOpDone("k1")
  \/ KeyClock

SpecKeys == InitKeys /\ [][NextKeys]_vars

\* every plaintext that was ever issued for a row of the table
IssuedPlaintexts ==
  ApiKeyHeaders \cup {"pk_exp"}
    \cup {generateApiKey(prefix, id) : prefix \in {"pk", "sk"}, id \in 1..(Len(KeysSeed) + MaxRotations + 1)}

PlaintextsOf(row) == {key \in IssuedPlaintexts : hashApiKey(key) = row.key_hash}

RowById(rows, id) == rows[CHOOSE i \in 1..Len(rows) : rows[i].id = id]

SameSlot(row, op) == row.project_id = op.projectId /\ row.key_type = op.keyType

\* the postcondition of a rotateKey call that has just returned
RotatePost(op) ==
  /\ \A i \in 1..Len(op.before) :
       LET old == op.before[i]
       IN  IF SameSlot(old, op)
             THEN old.revoked_at = NULL =>
                    /\ RowById(api_keys, old.id).revoked_at # NULL
                    /\ PlaintextsOf(old) # {}
                    /\ \A key \in PlaintextsOf(old) : validateKey(key, api_keys, now) = NoContext
             ELSE api_keys[i] = old
  /\ Len(api_keys) = Len(op.before) + 1
  /\ validateKey(op.newKey, api_keys, now) =
       [projectId |-> op.projectId, keyType |-> op.keyType, keyId |-> op.newKeyId]

\* C4: when rotateKey(P, t) has returned the new key k, every key of P of
\* type t that was unrevoked before the call is revoked and its plaintext no
\* longer validates, k validates to a context of project P and type t, and
\* the keys of the other type and of other projects are unchanged
C4_RotatePostcondition ==
  \A c \in Callers :
    (keyOp[c].op = "rotate" /\ keyOp[c].pc = "returned") => RotatePost(keyOp[c])

\* a rotation has returned that had an unrevoked key of its project and
\* type to revoke, after an earlier rotation
C4_Witness ==
  \E c \in Callers :
    /\ keyOp[c].op = "rotate" /\ keyOp[c].pc = "returned"
    /\ Len(keyOp[c].before) > Len(KeysSeed)
    /\ \E i \in 1..Len(keyOp[c].before) :
         SameSlot(keyOp[c].before[i], keyOp[c]) /\ keyOp[c].before[i].revoked_at = NULL

(***************************************************************************)
(* Provisioning: createProject and deleteProject calls, one at a time,     *)
(* next to project p1 that is provisioned and has an object in its bucket  *)
(***************************************************************************)
InitProv ==
  /\ api_keys = SelectSeq(SeedKeys, LAMBDA row : row.project_id = "p1")
  /\ projectPools = [p \in Projects |-> IF p = "p1" THEN OpenPools(getCredentials(p)) ELSE NoPools]
  /\ tableInfoCache = [p \in Projects |-> NoCache]
  /\ now = 0
  /\ req = [r \in Requests |-> IdleReq]
  /\ tenantLog = {} /\ storeLog = {}
  /\ KeyIdle /\ SchedIdle /\ AdminIdle /\ BackupIdle
  /\ prov = IdleProv
  /\ infra = Provisioned("p1") \cup {Object("p1")}
  /\ platformRows = ProjectRows("p1")

NextProv ==
  \/ CreateProject
  \/ CreateDdlStep
  \/ CreateGrantStep
  \/ TempPoolEnd
  \/ CreateCleanupStep
  \/ ProvTxBegin
  \/ CreateTxStep
  \/ ProvTxCommit
  \/ ProvTxRollback
  \/ DeleteProject
  \/ ClosePools
  \/ DeleteTxStep
  \/ DeleteDropStep
  \/ DeleteBucketStep
  \/ ProvDone

SpecProv == InitProv /\ [][NextProv]_vars

ClusterOf(projectId) == {Database(projectId), OwnerRole(projectId), AppRole(projectId)}

HasRows(projectId) ==
  \/ \E row \in platformRows : row.project_id = projectId
  \/ \E i \in 1..Len(api_keys) : api_keys[i].project_id = projectId

CreateFailedAndDropped == prov.op = "create" /\ prov.pc = "failed" /\ prov.dropsOk

KeysOnlyOnSuccess ==
  (prov.op = "create" /\ prov.returned # <<>>) =>
    /\ prov.pc = "returned" /\ prov.firstError = ""
    /\ ProjectRows(prov.id) \subseteq platformRows
    /\ Provisioned(prov.id) \subseteq infra

C7_BucketIffCommitted ==
  (prov.op = "create" /\ prov.pc \in {"returned", "failed"}) =>
    (Bucket(prov.id) \in infra <=>
       (prov.pc = "returned" /\ Row("projects", prov.id, "") \in platformRows))

\* C8: after deleteProject terminates, normally or with an error, either
\* the rows, keys, database, roles and bucket of the project all exist or
\* none of them exists
C8_TeardownAllOrNothing ==
  (prov.op = "delete" /\ prov.pc \in {"returned", "failed"}) =>
    \/ /\ ProjectRows(prov.id) \subseteq platformRows
       /\ \E i \in 1..Len(api_keys) : api_keys[i].project_id = prov.id
       /\ Provisioned(prov.id) \subseteq infra
    \/ /\ ~HasRows(prov.id)
       /\ Provisioned(prov.id) \cap infra = {}

(***************************************************************************)
(* The scheduler process: periodic syncs, Cron firings and the dispatches   *)
(* they start, interleaved at every await                                  *)
(***************************************************************************)
InitSched ==
  /\ api_keys = SeedKeys
  /\ ApiIdle /\ KeyIdle /\ ProvIdle /\ SchedIdle /\ AdminIdle /\ BackupIdle

NextSched ==
  \/ SyncJobs(PlatformJobRows)
  \/ \E j \in Jobs : Fire(j)
  \/ \E d \in 1..Len(dispatches) : CreateJobRun(d)
  \/ \E d \in 1..Len(dispatches) : ExecuteJob(d)
  \/ \E d \in 1..Len(dispatches) : UpdateJobRun(d)
  \/ \E d \in 1..Len(dispatches) : RetrySleep(d)
  \/ \E d \in 1..Len(dispatches) : CatchUpdateJobRun(d)
  \/ \E d \in 1..Len(dispatches) : UpdateJobTimestamps(d)
  \/ \E d \in 1..Len(dispatches) : DispatchReturns(d)

SpecSched == InitSched /\ [][NextSched]_vars

InProgress == {d \in 1..Len(dispatches) : dispatches[d].pc \notin {"skipped", "rejected", "returned"}}

RowsOf(d) == SelectSeq(cron_job_runs, LAMBDA run : run.dispatch = d)

\* C9: runningJobs never exceeds maxConcurrentJobs and is never below the
\* number of dispatches in progress; a firing that found runningJobs at the
\* limit was dropped: it did nothing, is not queued and has no run row
C9_ConcurrencyLimit ==
  /\ runningJobs <= maxConcurrentJobs
  /\ Cardinality(InProgress) <= runningJobs
  /\ \A d \in 1..Len(dispatches) :
       dispatches[d].seen >= maxConcurrentJobs =>
         /\ dispatches[d].pc = "skipped"
         /\ dispatches[d].attempt = 0
         /\ RowsOf(d) = <<>>

\* a firing is dropped while maxConcurrentJobs dispatches are in progress
C9_Witness ==
  /\ Cardinality(InProgress) = maxConcurrentJobs
  /\ \E d \in 1..Len(dispatches) :
       dispatches[d].pc = "skipped" /\ dispatches[d].seen = maxConcurrentJobs
  /\ cron_job_runs # <<>>

RunsOfJob(j) == SelectSeq(cron_job_runs, LAMBDA run : run.jobId = j)

\* C10: for every job, its run rows in creation order have strictly
\* increasing startedAt; the rows of each dispatch are numbered 1, 2, 3, ...
\* without gap or repeat; and no row of one dispatch of the job lies
\* between two rows of another dispatch of the same job
C10_RunsOrderedAndContiguous ==
  \A j \in Jobs :
    LET runs == RunsOfJob(j)
    IN  /\ \A i \in 1..(Len(runs) - 1) : runs[i].startedAt < runs[i + 1].startedAt
        /\ \A d \in 1..Len(dispatches) :
             \A i \in 1..Len(RowsOf(d)) : RowsOf(d)[i].attemptNumber = i
        /\ \A i, k \in 1..Len(runs) :
             (i < k /\ runs[i].dispatch = runs[k].dispatch) =>
               \A m \in i..k : runs[m].dispatch = runs[i].dispatch

(***************************************************************************)
(* The schema cache next to admin DDL: GET /v1/db/tables on one slot,      *)
(* admin statements on the other, and the clock                            *)
(***************************************************************************)
SchemaKeys == {"pk_p1", "sk_p2"}
SchemaSqls == {"CREATE TABLE t(id int)", "SELECT 1"}

NextSchema ==
  \/ PublicAuth("r1", SchemaKeys)
  \/ DbTables("r1")
  \/ AdminSql("r2", SchemaSqls)
  \/ \E r \in Requests : CredsLoaded(r)
  \/ \E r \in Requests : QueryReturn(r)
  \/ \E r \in Requests : Finish(r)
  \/ Tick

SpecSchema == InitApi /\ [][NextSchema]_vars

Range(seq) == {seq[i] : i \in 1..Len(seq)}

\* C14: a GET /v1/db/tables answered 200 lists every table that an admin
\* CREATE TABLE on the project had created (and answered 200 for) before
\* the request was issued, whatever the age of the project's cache entry
C14_TablesListsCreatedTable ==
  \A r \in Requests :
    (req[r].route = "tables" /\ req[r].pc = "done" /\ req[r].resp.status = 200) =>
      \A i \in 1..req[r].issued :
        tenantDdl[req[r].project][i].tableName \in Range(req[r].data)

(***************************************************************************)
(* Backups started by the admin API and by the scheduler, with the         *)
(* asynchronous backup tasks they start                                    *)
(***************************************************************************)
InitBackup ==
  /\ api_keys = SeedKeys
  /\ ApiIdle /\ KeyIdle /\ ProvIdle /\ SchedIdle /\ AdminIdle /\ BackupIdle

NextBackup ==
  \/ CreateBackup
  \/ SchedBackup
  \/ \E t \in 1..Len(backupTasks) : CreateEnsureBucket(t)
  \/ \E t \in 1..Len(backupTasks) : CreateInsert(t)
  \/ \E t \in 1..Len(backupTasks) : CreateAudit(t)
  \/ \E t \in 1..Len(backupTasks) : CreateReturn(t)
  \/ \E t \in 1..Len(backupTasks) : RunMarkRunning(t)
  \/ \E t \in 1..Len(backupTasks) : SchedCreds(t)
  \/ \E t \in 1..Len(backupTasks) : SchedInsert(t)
  \/ \E t \in 1..Len(backupTasks) : BackupTryStep(t)
  \/ \E t \in 1..Len(backupTasks) : BackupCatch(t)

SpecBackup == InitBackup /\ [][NextBackup]_vars

LegalStatusChange ==
  { <<"pending", "running">>, <<"running", "completed">>, <<"running", "failed">> }

\* C11: every backup row starts at status pending, and in every step its
\* status stays as it is or changes pending -> running, running ->
\* completed or running -> failed
C11_BackupStatusTransitions ==
  [][\A i \in 1..Len(backups') :
       IF i > Len(backups) THEN backups'[i].status = "pending"
       ELSE \/ backups'[i].status = backups[i].status
            \/ <<backups[i].status, backups'[i].status>> \in LegalStatusChange]_vars

\* C12: the row createBackup returns for the 202 reply has status pending
\* or running
C12_ReturnedRowPendingOrRunning ==
  \A t \in 1..Len(backupTasks) :
    (backupTasks[t].kind = "createBackup" /\ backupTasks[t].pc = "returned") =>
      backupTasks[t].returned \in {"pending", "running"}

(***************************************************************************)
(* The retention policy applied to any small table of backups              *)
(***************************************************************************)
MaxRetentionRows == 2

RetentionNow == 20 * DayMs

\* ages in days of the backups the table may hold: inside each tier and on
\* each tier bound
RetentionAges == {0, 3, 5, 7, 10, 14, 15}

RetentionTables ==
  UNION { [1..n -> [age : RetentionAges, project : Projects, status : {"completed", "failed"}]] :
            n \in 0..MaxRetentionRows }

InitRetention ==
  /\ api_keys = SeedKeys
  /\ projectPools = [p \in Projects |-> NoPools]
  /\ tableInfoCache = [p \in Projects |-> NoCache]
  /\ now = RetentionNow
  /\ req = [r \in Requests |-> IdleReq]
  /\ tenantLog = {}
  /\ storeLog = {}
  /\ KeyIdle /\ ProvIdle /\ SchedIdle /\ AdminIdle
  /\ backupTasks = <<>>
  /\ retention = IdleRetention
  /\ \E table \in RetentionTables :
       backups = [i \in 1..Len(table) |->
                    BackupRow(i, table[i].project, "project", table[i].status,
                              RetentionNow - table[i].age * DayMs, "admin")]

NextRetention ==
  \/ applyRetentionPolicy
  \/ applyBackupRetention
  \/ RetentionDelete

SpecRetention == InitRetention /\ [][NextRetention]_vars

\* the completed project backups of project p in rows whose age at time t
\* lies in [lo, hi) days
InTier(rows, p, t, lo, hi) ==
  {i \in 1..Len(rows) :
     /\ rows[i].project_id = p /\ rows[i].backup_type = "project" /\ rows[i].status = "completed"
     /\ t - rows[i].created_at >= lo * DayMs
     /\ t - rows[i].created_at < hi * DayMs}

RetentionScope == IF retention.projectId = "" THEN Projects ELSE {retention.projectId}

\* C13: once the policy has been applied at time t, for each project in its
\* scope: every backup younger than 3 days is kept, at most one backup of
\* age in [3, 7) days and at most one of age in [7, 14) days is kept, and
\* no backup of age 14 days or more is kept
C13_RetentionTiers ==
  retention.pc = "applied" =>
    \A p \in RetentionScope :
      /\ \A i \in InTier(retention.before, p, retention.at, 0, 3) :
           \E k \in 1..Len(backups) : backups[k].id = retention.before[i].id
      /\ Cardinality(InTier(backups, p, retention.at, 3, 7)) <= 1
      /\ Cardinality(InTier(backups, p, retention.at, 7, 14)) <= 1
      /\ \A k \in 1..Len(backups) :
           (/\ backups[k].project_id = p /\ backups[k].backup_type = "project"
            /\ backups[k].status = "completed")
           => retention.at - backups[k].created_at < 14 * DayMs

(***************************************************************************)
(* Column validation of the CRUD operations                                *)
(***************************************************************************)
RECURSIVE Flatten(_)
Flatten(seqs) == IF Len(seqs) = 0 THEN <<>> ELSE Head(seqs) \o Flatten(Tail(seqs))

\* every column a CRUD request names: select list, order column, filter
\* columns, keys of the inserted rows or of the update body
ReferencedColumns(rq) ==
  LET select == parseSelect(QueryGet(rq.query, "select"))
      order == parseOrder(QueryGet(rq.query, "order"))
      filters == FilterColumns(parseFilters(rq.query))
  IN  CASE rq.route = "select" ->
             (IF select = <<"*">> THEN <<>> ELSE select)
               \o (IF order = NoOrder THEN <<>> ELSE <<order.column>>) \o filters
        [] rq.route = "insert" ->
             Flatten([i \in 1..Len(rq.body.rows) |-> ColumnsOf(rq.body.rows[i])])
        [] rq.route = "update" -> ColumnsOf(rq.body.values) \o filters
        [] rq.route = "delete" -> filters
        [] OTHER -> <<>>

DataStatements(r) == {e \in Sent(r) : e.stmt.kind \in {"SELECT", "INSERT", "UPDATE", "DELETE"}}

\* C15: a CRUD operation on a table of the cached schema that names a column
\* outside the table's cached column set sends no data statement and is
\* answered 400
C15_UnknownColumnRefused ==
  \A r \in Requests :
    (/\ req[r].route \in {"select", "insert", "update", "delete"}
     /\ req[r].allowed # <<>>
     /\ ~AllIncluded(req[r].allowed, ReferencedColumns(req[r])))
    => /\ DataStatements(r) = {}
       /\ req[r].pc = "done" => req[r].resp.status = 400

(***************************************************************************)
(* Identifiers of the emitted CRUD statements                              *)
(***************************************************************************)
\* the columns of table name in the schema cached for project p
CachedColumns(p, name) ==
  LET tables == tableInfoCache[p].tables
      k == TableIndex(tables, name)
  IN  IF k = 0 THEN {} ELSE Range(tables[k].columns)

\* the k-th element of requested that is in the set allowed
KthAllowed(requested, allowed, k) ==
  LET idx == {i \in 1..Len(requested) : requested[i] \in allowed}
  IN  requested[CHOOSE i \in idx : Cardinality({j \in idx : j <= i}) = k]

\* the select list the claim describes for a request
SelectListFor(requested, allowed) ==
  LET n == Cardinality({i \in 1..Len(requested) : requested[i] \in allowed})
  IN  IF requested = <<"*">> \/ n = 0 THEN <<"*">>
      ELSE [k \in 1..n |-> KthAllowed(requested, allowed, k)]

\* C16: in every CRUD statement sent to a tenant database the table is a
\* table of the cached schema and every quoted column (select list, SET or
\* INSERT column, WHERE column, ORDER BY column) is one of its cached
\* columns; the select list is '*' when the request is '*' or names no
\* allowed column, else the allowed requested columns in request order
C16_QuotedIdentifiersAllowed ==
  \A e \in tenantLog :
    e.stmt.kind \in {"SELECT", "INSERT", "UPDATE", "DELETE"} =>
      LET p == req[e.req].project
          allowed == CachedColumns(p, e.stmt.table)
      IN  /\ TableIndex(tableInfoCache[p].tables, e.stmt.table) # 0
          /\ \A i \in 1..Len(e.stmt.columns) :
               e.stmt.columns[i] \in allowed
                 \/ (e.stmt.kind = "SELECT" /\ e.stmt.columns = <<"*">>)
          /\ \A i \in 1..Len(e.stmt.where) : e.stmt.where[i].column \in allowed
          /\ \A i \in 1..Len(e.stmt.order) : e.stmt.order[i].column \in allowed
          /\ e.stmt.kind = "SELECT" =>
               e.stmt.columns =
                 SelectListFor(parseSelect(QueryGet(req[e.req].query, "select")), allowed)

\* a select naming an unknown column between two allowed ones was sent with
\* the two allowed columns in request order
C16_Witness ==
  \E e \in tenantLog :
    /\ e.stmt.kind = "SELECT"
    /\ e.stmt.columns = <<"name", "id">>
    /\ Includes(parseSelect(QueryGet(req[e.req].query, "select")), "zz")

(***************************************************************************)
(* Placeholders: buildWhereClause called with any filter list and start    *)
(* index, next to the CRUD operations that use it                          *)
(***************************************************************************)
MaxStartParamIndex == 3

MaxFilters == 2

\* ParsedFilter values: one value for every operator but in, a list for in
FilterInputs ==
  [column : {"id"}, operator : {"eq", "neq", "gte", "ilike"},
   value : {<<"a">>}]
    \cup [column : {"id"}, operator : {"in"}, value : {<<>>, <<"a">>, <<"1", "2">>}]

FilterLists == UNION {[1..n -> FilterInputs] : n \in 0..MaxFilters}

\* buildWhereClause(filters, startParamIndex), called directly, once
CallBuildWhereClause ==
  /\ whereCall = IdleWhereCall
  /\ \E filters \in FilterLists, s \in 1..MaxStartParamIndex :
       whereCall' = [filters |-> filters, startParamIndex |-> s,
                     result |-> buildWhereClause(filters, s)]
  /\ UNCHANGED <<api_keys, apiVars, keyVars, provVars, schedVars, tenantDdl, settings, auxVars, backupVars>>

WhereQueries ==
  { <<>>,
    << <<"eq.id", "1">>, <<"limit", "5">>, <<"offset", "2">> >>,
    << <<"in.id", "1, 2">>, <<"gte.id", "0">> >>,
    << <<"limit", "5000">> >> }

WhereUpdates ==
  { [NoBody EXCEPT !.wellTyped = TRUE, !.values = << <<"id", "9">> >>],
    [NoBody EXCEPT !.wellTyped = TRUE, !.values = << <<"name", "x">>, <<"id", "9">> >>] }

NextWhere ==
  \/ CallBuildWhereClause
  \/ PublicAuth("r1", {"sk_p1"})
  \/ DbSelect("r1", {"users"}, WhereQueries)
  \/ DbInsert("r1", {"users"}, RouterInserts)
  \/ DbUpdate("r1", {"users"}, WhereQueries, WhereUpdates)
  \/ DbDelete("r1", {"users"}, WhereQueries)
  \/ CredsLoaded("r1")
  \/ QueryReturn("r1")
  \/ Finish("r1")

SpecWhere == InitApi /\ [][NextWhere]_vars

\* the placeholder numbers of a WHERE clause, in the order of the text
WherePlaceholders(conditions) ==
  Flatten([i \in 1..Len(conditions) |-> conditions[i].placeholders])

\* the values the filters of a request bring, in filter order
FilterValues(filters) == Flatten([i \in 1..Len(filters) |-> filters[i].value])

\* the result of the last direct call numbers its placeholders
\* s, s+1, ..., s+n-1 in text order, n the length of the value vector
WhereCallNumbered ==
  LET n == Len(whereCall.result.values)
  IN  /\ WherePlaceholders(whereCall.result.conditions)
           = [i \in 1..n |-> whereCall.startParamIndex + i - 1]
      /\ whereCall.result.values = FilterValues(whereCall.filters)
      /\ \A i \in 1..Len(whereCall.result.conditions) :
           whereCall.result.conditions[i].operator = "in"
             => Len(whereCall.result.conditions[i].placeholders) > 0

\* the placeholders of a statement in text order (SET or VALUES list, then
\* WHERE) are 1..Len(params), and params holds the body values followed by
\* the filter values
StatementBound(e) ==
  LET rq == req[e.req]
      body == CASE e.stmt.kind = "UPDATE" -> ValuesOf(rq.body.values)
                [] e.stmt.kind = "INSERT" -> e.stmt.params
                [] OTHER -> <<>>
  IN  /\ e.stmt.placeholders \o WherePlaceholders(e.stmt.where)
           = [i \in 1..Len(e.stmt.params) |-> i]
      /\ e.stmt.kind = "INSERT" =>
           \E k \in 1..Len(rq.body.rows) : e.stmt.params = ValuesOf(rq.body.rows[k])
      /\ e.stmt.kind # "INSERT" =>
           e.stmt.params = body \o FilterValues(parseFilters(rq.query))
      /\ e.stmt.kind = "UPDATE" =>
           /\ e.stmt.placeholders = [i \in 1..Len(rq.body.values) |-> i]
           /\ Len(e.stmt.where) > 0 =>
                e.stmt.where[1].placeholders[1] = Len(rq.body.values) + 1

\* the numbers written into the text of a statement that the client chose
InlineClientValues(e) ==
  {v \in {e.stmt.limit, e.stmt.offset} :
     \E i \in 1..Len(req[e.req].query) :
       /\ req[e.req].query[i][1] \in {"limit", "offset"}
       /\ parseInt(req[e.req].query[i][2]) = [defined |-> TRUE, nan |-> FALSE, n |-> v]}

\* C17 as stated: buildWhereClause numbers its placeholders s..s+n-1 once
\* each in increasing order, every statement binds its i-th placeholder to
\* the i-th parameter with SET using $1..$m and WHERE starting at $m+1,
\* and no value chosen by the client is written into the statement text
C17_PlaceholdersAndNothingInline ==
  /\ WhereCallNumbered
  /\ \A e \in tenantLog :
       e.stmt.kind \in {"SELECT", "INSERT", "UPDATE", "DELETE"} =>
         StatementBound(e) /\ InlineClientValues(e) = {}

\* C17 amended: as above for the placeholders and the parameter vector;
\* the filter values and body values reach the statement only through the
\* parameter vector, while LIMIT and OFFSET are written into the text of a
\* SELECT as the integers computed from the client's limit and offset
C17_PlaceholdersBound ==
  /\ WhereCallNumbered
  /\ \A e \in tenantLog :
       e.stmt.kind \in {"SELECT", "INSERT", "UPDATE", "DELETE"} =>
         /\ StatementBound(e)
         /\ e.stmt.kind = "SELECT" => e.stmt.limit \in Int /\ e.stmt.offset \in Int
         /\ e.stmt.kind # "SELECT" => e.stmt.limit = NULL /\ e.stmt.offset = NULL

\* a direct call with start index above 1 and an in filter of two values,
\* and an UPDATE of two columns whose WHERE clause starts at $3
C17_Witness ==
  /\ whereCall.startParamIndex > 1
  /\ \E i \in 1..Len(whereCall.result.conditions) :
       Len(whereCall.result.conditions[i].placeholders) = 2
  /\ \E e \in tenantLog :
       /\ e.stmt.kind = "UPDATE"
       /\ Len(e.stmt.placeholders) = 2
       /\ Len(e.stmt.where) > 0 /\ e.stmt.where[1].placeholders[1] = 3

(***************************************************************************)
(* GET /v1/db/:table under every kind of limit and offset value            *)
(***************************************************************************)
LimitValues == {"", "0", "-5", "5", "5000", "abc", "7x"}

OffsetValues == {"", "0", "-3", "2", "abc"}

\* query strings with limit and offset present or absent ("" is absent)
LimitQueries ==
  { (IF l = "" THEN <<>> ELSE << <<"limit", l>> >>)
      \o (IF o = "" THEN <<>> ELSE << <<"offset", o>> >>) :
    l \in LimitValues, o \in OffsetValues }

NextSelect ==
  \/ PublicAuth("r1", {"pk_p1"})
  \/ DbSelect("r1", {"users"}, LimitQueries)
  \/ CredsLoaded("r1")
  \/ QueryReturn("r1")
  \/ Finish("r1")

SpecSelect == InitApi /\ [][NextSelect]_vars

\* C18: every SELECT sent for GET /v1/db/:table has a LIMIT in
\* [1, maxRowsPerQuery] and an OFFSET >= 0, whatever the limit and offset
\* query values; a request that does not satisfy this is refused before any
\* SELECT is sent
C18_LimitOffsetInRange ==
  \A e \in tenantLog :
    e.stmt.kind = "SELECT" =>
      /\ e.stmt.limit >= 1 /\ e.stmt.limit <= maxRowsPerQuery
      /\ e.stmt.offset >= 0

(***************************************************************************)
(* The admin SQL executor next to the database-limits settings endpoint    *)
(***************************************************************************)
DbLimitBodies == [sqlMaxRows : {NULL, 0, 500}, sqlStatementTimeoutMs : {NULL, 50, 2000}]

SettingsSqls == {"SELECT 1", "select * from users limit 5;"}

NextSettings ==
  \/ UpdateDbLimits(DbLimitBodies)
  \/ AdminSql("r1", SettingsSqls)
  \/ CredsLoaded("r1")
  \/ QueryReturn("r1")
  \/ Finish("r1")

SpecSettings == InitApi /\ [][NextSettings]_vars

\* C19: an admin SQL execution during which the runtime settings did not
\* change (so every update had completed before it started) sets
\* statement_timeout to settings.sqlStatementTimeoutMs and appends
\* LIMIT settings.sqlMaxRows
C19_SqlCapsFollowSettings ==
  \A e \in tenantLog :
    (req[e.req].route = "sql" /\ req[e.req].caps = settings) =>
      /\ e.stmt.kind = "SET" => e.stmt.limit = settings.sqlStatementTimeoutMs
      /\ (e.stmt.kind = "ADMIN" /\ e.stmt.rowCap # NULL) => e.stmt.rowCap = settings.sqlMaxRows

(***************************************************************************)
(* revokeKey                                                               *)
(***************************************************************************)
\* C20: a revokeKey call that returned found its key active (not revoked,
\* not expired) at the time it wrote revoked_at, and changed that row only;
\* a call that failed changed no row
C20_RevokeIffActive ==
  \A c \in Callers :
    keyOp[c].op = "revoke" =>
      /\ keyOp[c].pc = "returned" =>
           /\ \E i \in 1..Len(keyOp[c].before) :
                /\ keyOp[c].before[i].id = keyOp[c].keyId
                /\ api_keys[i].revoked_at # NULL
                /\ IsActiveKey(keyOp[c].before[i], api_keys[i].revoked_at)
           /\ \A i \in 1..Len(keyOp[c].before) :
                keyOp[c].before[i].id # keyOp[c].keyId => api_keys[i] = keyOp[c].before[i]
      /\ keyOp[c].pc = "failed" => api_keys = keyOp[c].before

(***************************************************************************)
(* Properties of the scheduler's dispatches and of its registry            *)
(***************************************************************************)
InProgressOf(j) == {d \in InProgress : dispatches[d].job = j}

\* C21: at most one dispatch of a job is in progress at any time: a new
\* dispatch of the job starts only after the previous one has returned
C21_NoOverlapPerJob == \A j \in Jobs : Cardinality(InProgressOf(j)) <= 1

\* C22: every job id in the activeCrons registry maps to a Cron that is
\* still running; a job without a registry entry has no running Cron
C22_RegistryArmsRunning == \A j \in Jobs : activeCrons[j] \in {"none", "live"}

\* C23: a dispatch that was not dropped is within attempts 1..retries+1,
\* starts no attempt after an attempt whose job succeeded, starts no
\* attempt after a failed one without the retry sleep, and leaves its loop
\* as successful exactly when the job of one of its attempts succeeded
C23_RetryDiscipline ==
  \A d \in 1..Len(dispatches) :
    LET dis == dispatches[d]
    IN  /\ d \in InProgress =>
             dis.attempt >= 1 /\ dis.attempt <= JobConfig[dis.job].retries + 1
        /\ ~dis.afterWin
        /\ ~dis.unslept
        /\ dis.pc \in {"timestamps", "notify"} => (dis.success <=> dis.won)

(***************************************************************************)
(* The scheduler with HTTP jobs: rows with sealed headers and body         *)
(***************************************************************************)
NextHttpJobs ==
  \/ SyncJobs(JobRowInputs)
  \/ \E j \in Jobs : Fire(j)
  \/ \E d \in 1..Len(dispatches) : CreateJobRun(d)
  \/ \E d \in 1..Len(dispatches) : ExecuteJob(d)
  \/ \E d \in 1..Len(dispatches) : UpdateJobRun(d)
  \/ \E d \in 1..Len(dispatches) : RetrySleep(d)
  \/ \E d \in 1..Len(dispatches) : CatchUpdateJobRun(d)
  \/ \E d \in 1..Len(dispatches) : UpdateJobTimestamps(d)
  \/ \E d \in 1..Len(dispatches) : DispatchReturns(d)

SpecHttpJobs == InitSched /\ [][NextHttpJobs]_vars

\* C24: while no dispatch of a job is in progress, the CronJob object held
\* for the job in scheduler memory has neither header nor body plaintext
C24_PlaintextOnlyInDispatch ==
  \A j \in Jobs :
    InProgressOf(j) = {} => loadedJobs[j].httpHeaders = Null /\ loadedJobs[j].httpBody = Null

(***************************************************************************)
(* Admin SQL executions and other owner-tier queries of project p1 sharing *)
(* the owner pool                                                          *)
(***************************************************************************)
NextOwnerPool ==
  \/ \E t \in OtherTasks : OtherQueryStart("p1", t)
  \/ \E t \in AdminTasks : AdminQueryStart("p1", t)
  \/ \E t \in OwnerTasks : OwnerQueryReturn("p1", t)
  \/ \E t \in OwnerTasks : OwnerTaskDone("p1", t)

SpecOwnerPool == InitApi /\ [][NextOwnerPool]_vars

\* C25: whenever the admin's statement runs on a connection of the owner
\* pool, statement_timeout has been set on that connection
C25_TimeoutOnExecutingConnection ==
  \A p \in Projects : \A t \in AdminTasks :
    LET task == ownerConns[p].tasks[t]
    IN  (task.pc = "run" /\ task.phase = "stmt")
          => ownerConns[p].conns[task.conn].timeout = statementTimeoutMs

\* C26: every dispatch that incremented runningJobs has decremented it by
\* the time it is over, so with no dispatch in progress runningJobs = 0
C26_RunningJobsReleased == InProgress = {} => runningJobs = 0

(***************************************************************************)
(* The API-key service with two concurrent callers                         *)
(***************************************************************************)
NextRotations ==
  \/ \E c \in Callers :
       \/ RotateKey(c)
       \/ TxBegin(c)
       \/ RotateRevokeOld(c)
       \/ RotateRevokeResume(c)
       \/ RotateInsertNew(c)
       \/ TxCommit(c)
       \/ RotateSelectNew(c)
       \/ KeyOpDone(c)
  \/ RevokeKey("k1")

\* the keys createProject issued: one unrevoked key of each type a project
InitRotations ==
  /\ api_keys = SeedKeys
  /\ ApiIdle /\ KeyIdle /\ ProvIdle /\ SchedIdle /\ AdminIdle /\ BackupIdle

SpecRotations == InitRotations /\ [][NextRotations]_vars

UnrevokedKeys(p, t) ==
  {i \in 1..Len(api_keys) :
     api_keys[i].project_id = p /\ api_keys[i].key_type = t /\ api_keys[i].revoked_at = NULL}

\* C28: a project has at most one unrevoked key of each type
C28_OneUnrevokedKeyPerType ==
  \A p \in Projects : \A t \in KeyTypes : Cardinality(UnrevokedKeys(p, t)) <= 1

(***************************************************************************)
(* Concurrent lookups and closeProjectPools for project p1                 *)
(***************************************************************************)
NextPools ==
  \/ \E t \in LookupTasks : LookupStart("p1", t)
  \/ \E t \in LookupTasks : LookupCredsLoaded("p1", t)
  \/ \E t \in CloseTasks : CloseStart("p1", t)
  \/ \E t \in CloseTasks : CloseOwnerEnded("p1", t)
  \/ \E t \in CloseTasks : CloseAppEnded("p1", t)
  \/ \E t \in PoolTasks : PoolTaskDone(t)

SpecPools == InitApi /\ [][NextPools]_vars

\* C27: every pool that was opened is the stored pool of its project or
\* has been ended, and no query goes to a pool that has been ended
C27_NoOrphanNoEndedDispatch ==
  /\ \A i \in 1..Len(poolLog.pairs) :
       \/ poolLog.stored[poolLog.pairs[i].project] = i
       \/ poolLog.pairs[i].owner = "ended" /\ poolLog.pairs[i].app = "ended"
  /\ \A t \in LookupTasks : ~poolLog.tasks[t].ended

(***************************************************************************)
(* Both services started with the same PLATFORM_MASTER_KEY                 *)
(***************************************************************************)
InitCrypto ==
  /\ api_keys = SeedKeys
  /\ ApiIdle /\ KeyIdle /\ ProvIdle /\ SchedIdle /\ BackupIdle
  /\ tenantDdl = [p \in Projects |-> <<>>]
  /\ settings = [sqlMaxRows |-> maxRowsPerQuery, sqlStatementTimeoutMs |-> statementTimeoutMs]
  /\ whereCall = IdleWhereCall
  /\ loadedJobs = [j \in Jobs |-> NoJob]
  /\ ownerConns = [p \in Projects |-> IdleOwnerPool]
  /\ poolLog = IdlePoolLog
  /\ cleanup = IdleCleanup
  /\ vault \in {[IdleVault EXCEPT !.secret = s] : s \in Secrets}

NextCrypto == GatewayEncrypt \/ GatewayDecrypt \/ SchedulerDecrypt

SpecCrypto == InitCrypto /\ [][NextCrypto]_vars

\* C29: for every secret under which the gateway has sealed a credential
\* the scheduler derives the gateway's key, and the scheduler's decryption of a stored credential
\* gives what the gateway's gives (the same text, or a failure for both)
C29_SchedulerOpensGatewayCredentials ==
  /\ Len(vault.stored) > 0
       => SchedulerKey(vault.secret) = getMasterKeyBuffer(vault.secret)
  /\ \A i \in 1..Len(vault.out) :
       (vault.out[i].gateway # NotRun /\ vault.out[i].scheduler # NotRun)
         => vault.out[i].scheduler = vault.out[i].gateway

(***************************************************************************)
(* Cleanup of expired backups while the clock advances and backups are     *)
(* created                                                                 *)
(***************************************************************************)
NextCleanup ==
  \/ CleanupSelect
  \/ CleanupDeleteObject
  \/ CleanupDelete
  \/ CleanupDone
  \/ CleanupInsert
  \/ Tick

SpecCleanup == InitApi /\ [][NextCleanup]_vars

\* C30: a run removes only rows whose object it attempted to delete, and
\* returns the number of rows it removed
C30_RemovedOnlyAttempted ==
  cleanup.pc = "returned"
    => /\ cleanup.deleted \subseteq cleanup.attempted
       /\ cleanup.count = Cardinality(cleanup.deleted)

====
